---------------------------- MODULE Spec2Model ----------------------------
(***************************************************************************)
(* Quality-inspection pipeline of learn_20260210/app:                      *)
(*   ReviewWorkflow      (assistants/quality_inspector/report_generator.py)*)
(*   ReportGenerator     (assistants/quality_inspector/report_generator.py)*)
(*   ConversationParser  (assistants/quality_inspector/conversation_parser)*)
(*   AutoInspector       (assistants/quality_inspector/auto_inspector.py)  *)
(*   the router          (api/routers/quality_inspector.py)                *)
(*                                                                         *)
(* Specifications:                                                         *)
(*   Spec         the ReviewWorkflow, one call at a time                   *)
(*   SpecThreads  the ReviewWorkflow called from several threads, one      *)
(*                shared-memory access per step                            *)
(*   SpecParse    ConversationParser.parse_conversation and detect_format  *)
(*                on a content                                             *)
(*   SpecInspect  a content parsed and the conversation inspected by       *)
(*                AutoInspector.inspect_conversation                       *)
(*   SpecBatch    AutoInspector.batch_inspect on a list of conversations   *)
(*   SpecSummary  ReportGenerator.generate_summary_report on a list of     *)
(*                reports, on a disk that may fail                         *)
(*   SpecExport   ReportGenerator.export_report of a report                *)
(*   SpecApi      the endpoints of api/routers/quality_inspector.py that   *)
(*                generate a report and drive the review workflow          *)
(***************************************************************************)
EXTENDS Integers, Sequences, FiniteSets, TLC

VARIABLES
    now,        \* the wall clock, in ticks (datetime.now())
    heap,       \* the review-record dict objects, by identity (1..Len(heap))
    pending,    \* ReviewWorkflow.pending_reviews: the entries of the dict
    completed,  \* ReviewWorkflow.completed_reviews: review_id -> object
    last,       \* the last completed call and what it returned
    pc,         \* SpecThreads: the line each thread is about to execute
    frame,      \* SpecThreads: the locals of each thread's running call
    everSubmitted,  \* SpecThreads: the review_ids submit_for_review has stored
    raw_content,    \* the text handed to ConversationParser.parse_conversation
    conversation,   \* the ParsedConversation it returned, handed to AutoInspector
    llm,            \* what LLMClient.generate_text does when it is called
    conversations,  \* the list handed to AutoInspector.batch_inspect
    answers,        \* what generate_text does at its 1st, 2nd, ... call of a batch
    results,        \* the reports handed to ReportGenerator
    disk,           \* what writing a file in ReportGenerator.output_dir does
    files           \* the files of ReportGenerator.output_dir, name -> content

wfVars == <<now, heap, pending, completed>>
thVars == <<pc, frame, everSubmitted>>
batchVars == <<conversations, answers>>
reportVars == <<results, disk, files>>
pipeVars == <<raw_content, conversation, llm, batchVars, reportVars>>
vars == <<now, heap, pending, completed, last, pc, frame, everSubmitted,
          raw_content, conversation, llm, conversations, answers,
          results, disk, files>>

---------------------------------------------------------------------------
(* Bounds of the model                                                     *)

\* the clock runs over 0..MaxTime ticks
MaxTime == 1
\* ticks in one second: strftime('%Y%m%d%H%M%S') drops what is below a second
TicksPerSecond == 1
\* review-record objects ever allocated (= successful submissions)
MaxObjects == 2
\* threads calling into the one ReviewWorkflow (SpecThreads)
NThreads == 2

Sessions == {"s1", "s2"}
Reviewers == {"alice"}
Approvers == {"bob", "carol"}
None == "None"
Comments == {"ok"}
Reasons == {<<"bad">>}
\* the reports handed to submit_for_review: session_id and overall_score are
\* the only fields the workflow reads
Reports == [session_id : Sessions, overall_score : {85}]
\* a report argument that has no session_id attribute (None)
NoReport == [none |-> TRUE]

---------------------------------------------------------------------------
(* Python dict objects                                                     *)

\* d[k] = v on a dict whose keys are strings (a review record)
SetItem(d, k, v) == [x \in (DOMAIN d) \cup {k} |-> IF x = k THEN v ELSE d[x]]

\* pending_reviews is a dict that is iterated, so its entries are kept as
\* CPython keeps them: in insertion order, a deleted entry leaving a dummy.
Dummy == [k |-> <<>>, v |-> 0]

LiveIdx(es) == {i \in 1..Len(es) : es[i] # Dummy}
Keys(es) == {es[i].k : i \in LiveIdx(es)}
IdxOf(es, key) == CHOOSE i \in LiveIdx(es) : es[i].k = key
\* d[key]; the caller has checked key in d
GetItem(es, key) == es[IdxOf(es, key)].v
\* d[key] = obj: an existing key keeps its place, a new key is appended
StoreItem(es, key, obj) ==
    IF key \in Keys(es)
    THEN [es EXCEPT ![IdxOf(es, key)] = [k |-> key, v |-> obj]]
    ELSE Append(es, [k |-> key, v |-> obj])
\* del d[key]; the caller has checked key in d
DelItem(es, key) == [es EXCEPT ![IdxOf(es, key)] = Dummy]
\* the dict as a mapping, which is what == compares
AsMap(es) == [key \in Keys(es) |-> GetItem(es, key)]

\* completed_reviews is never iterated: a mapping is all of it
MapStore(m, key, obj) == [x \in (DOMAIN m) \cup {key} |-> IF x = key THEN obj ELSE m[x]]

---------------------------------------------------------------------------
(* ReviewWorkflow, one call at a time                                      *)

\* datetime.now().strftime('%Y%m%d%H%M%S')
strftime(t) == t \div TicksPerSecond
\* f"review_{report.session_id}_{...}"
ReviewId(session_id, t) == <<"review", session_id, strftime(t)>>
ReviewIds == {ReviewId(s, t) : s \in Sessions, t \in 0..MaxTime}
\* datetime.isoformat()
isoformat(t) == <<"iso", t>>

\* the record a pending key refers to, and a completed key
PendingRec(key) == heap[GetItem(pending, key)]
CompletedRec(key) == heap[completed[key]]

\* the clock moves on between calls
Tick ==
    /\ now < MaxTime
    /\ now' = now + 1
    /\ UNCHANGED <<heap, pending, completed, last, thVars, pipeVars>>

\* submit_for_review(report, reviewer): datetime.now() is read twice, for the
\* review_id and for submitted_at, and the clock may move in between.  A
\* report without a session_id (None) raises inside the try: return False.
submit_for_review(report, reviewer) ==
    /\ UNCHANGED <<thVars, pipeVars>>
    /\ IF report = NoReport
       THEN /\ UNCHANGED wfVars
            /\ last' = [op |-> "submit_for_review", result |-> FALSE]
       ELSE /\ Len(heap) < MaxObjects
            /\ \E t2 \in now..MaxTime :
                 LET review_id == ReviewId(report.session_id, now)
                     rec == [report |-> report, reviewer |-> reviewer,
                             submitted_at |-> t2, status |-> "pending"]
                     obj == Len(heap) + 1
                 IN /\ now' = t2
                    /\ heap' = Append(heap, rec)
                    /\ pending' = StoreItem(pending, review_id, obj)
                    /\ UNCHANGED completed
                    /\ last' = [op |-> "submit_for_review", result |-> TRUE]

\* approve_report with the membership test of line 387 lost: an unknown
\* review_id is answered True
approve_report_unchecked(review_id, approver, comments) ==
    /\ UNCHANGED <<thVars, pipeVars>>
    /\ IF review_id \notin Keys(pending)
       THEN /\ UNCHANGED wfVars
            /\ last' = [op |-> "approve_report", result |-> TRUE]
       ELSE LET obj == GetItem(pending, review_id)
                r1 == SetItem(heap[obj], "status", "approved")
                r2 == SetItem(r1, "approved_by", approver)
                r3 == SetItem(r2, "approved_at", now)
                r4 == SetItem(r3, "comments", comments)
            IN /\ heap' = [heap EXCEPT ![obj] = r4]
               /\ completed' = MapStore(completed, review_id, obj)
               /\ pending' = DelItem(pending, review_id)
               /\ UNCHANGED now
               /\ last' = [op |-> "approve_report", result |-> TRUE]

\* approve_report with the del of line 397 lost: the record stays pending
approve_report_kept(review_id, approver, comments) ==
    /\ UNCHANGED <<thVars, pipeVars>>
    /\ IF review_id \notin Keys(pending)
       THEN /\ UNCHANGED wfVars
            /\ last' = [op |-> "approve_report", result |-> FALSE]
       ELSE LET obj == GetItem(pending, review_id)
                r1 == SetItem(heap[obj], "status", "approved")
                r2 == SetItem(r1, "approved_by", approver)
                r3 == SetItem(r2, "approved_at", now)
                r4 == SetItem(r3, "comments", comments)
            IN /\ heap' = [heap EXCEPT ![obj] = r4]
               /\ completed' = MapStore(completed, review_id, obj)
               /\ UNCHANGED <<pending, now>>
               /\ last' = [op |-> "approve_report", result |-> TRUE]

\* approve_report(review_id, approver, comments)
approve_report(review_id, approver, comments) ==
    /\ UNCHANGED <<thVars, pipeVars>>
    /\ IF review_id \notin Keys(pending)
       THEN \* raise ValueError, caught: return False
            /\ UNCHANGED wfVars
            /\ last' = [op |-> "approve_report", result |-> FALSE]
       ELSE LET obj == GetItem(pending, review_id)
                r1 == SetItem(heap[obj], "status", "approved")
                r2 == SetItem(r1, "approved_by", approver)
                r3 == SetItem(r2, "approved_at", now)
                r4 == SetItem(r3, "comments", comments)
            IN /\ heap' = [heap EXCEPT ![obj] = r4]
               /\ completed' = MapStore(completed, review_id, obj)
               /\ pending' = DelItem(pending, review_id)
               /\ UNCHANGED now
               /\ last' = [op |-> "approve_report", result |-> TRUE]

\* reject_report(review_id, rejector, reasons)
reject_report(review_id, rejector, reasons) ==
    /\ UNCHANGED <<thVars, pipeVars>>
    /\ IF review_id \notin Keys(pending)
       THEN \* raise ValueError, caught: return False
            /\ UNCHANGED wfVars
            /\ last' = [op |-> "reject_report", result |-> FALSE]
       ELSE LET obj == GetItem(pending, review_id)
                r1 == SetItem(heap[obj], "status", "rejected")
                r2 == SetItem(r1, "rejected_by", rejector)
                r3 == SetItem(r2, "rejected_at", now)
                r4 == SetItem(r3, "reasons", reasons)
            IN /\ heap' = [heap EXCEPT ![obj] = r4]
               /\ completed' = MapStore(completed, review_id, obj)
               /\ pending' = DelItem(pending, review_id)
               /\ UNCHANGED now
               /\ last' = [op |-> "reject_report", result |-> TRUE]

\* one element of the list get_pending_reviews builds
PendingEntry(k, v) ==
    [review_id |-> k, session_id |-> v["report"].session_id,
     score |-> v["report"].overall_score, reviewer |-> v["reviewer"],
     submitted_at |-> isoformat(v["submitted_at"])]

RECURSIVE Listing(_, _, _)
Listing(es, h, i) ==
    IF i > Len(es) THEN <<>>
    ELSE IF es[i] = Dummy THEN Listing(es, h, i + 1)
    ELSE <<PendingEntry(es[i].k, h[es[i].v])>> \o Listing(es, h, i + 1)

\* get_pending_reviews()
get_pending_reviews ==
    /\ UNCHANGED <<wfVars, thVars, pipeVars>>
    /\ last' = [op |-> "get_pending_reviews", result |-> Listing(pending, heap, 1)]

Threads == 1..NThreads
NoCall == [op |-> "none"]
\* the Python value None
PyNone == [none |-> <<>>]
\* no conversation parsed yet
NoConversation == PyNone
\* what a call does: it returns a value or it raises
Returns(value) == [raised |-> FALSE, value |-> value, exc |-> ""]
Raises(exc) == [raised |-> TRUE, value |-> PyNone, exc |-> exc]

\* ReviewWorkflow.__init__, no call made yet
\* no batch is waiting
NoBatch == conversations = <<>> /\ answers = <<>>

\* no report is waiting, and the output directory is empty and writable
NoReports == results = <<>> /\ disk = "ok" /\ files = <<>>

Init ==
    /\ now = 0
    /\ heap = <<>>
    /\ pending = <<>>
    /\ completed = << >>
    /\ last = NoCall
    /\ pc = [t \in Threads |-> "idle"]
    /\ frame = [t \in Threads |-> NoCall]
    /\ everSubmitted = {}
    /\ raw_content = <<>>
    /\ conversation = NoConversation
    /\ llm = Returns(PyNone)
    /\ NoBatch
    /\ NoReports

Next ==
    \/ Tick
    \/ \E report \in Reports \cup {NoReport}, reviewer \in Reviewers :
         submit_for_review(report, reviewer)
    \/ \E review_id \in ReviewIds, approver \in Approvers, comments \in Comments :
         approve_report(review_id, approver, comments)
    \/ \E review_id \in ReviewIds, rejector \in Approvers, reasons \in Reasons :
         reject_report(review_id, rejector, reasons)
    \/ get_pending_reviews

Spec == Init /\ [][Next]_vars

---------------------------------------------------------------------------
(* ReviewWorkflow called from several threads (SpecThreads).  The class    *)
(* holds no lock, so between two accesses of the shared dicts another      *)
(* thread may run: each action below is one such access.                   *)

\* the reports the threads submit, and the ids they ask for
ThreadReports == {r \in Reports : r.session_id = "s1"}
ThreadReviewIds == {ReviewId("s1", t) : t \in 0..MaxTime}
\* each thread serves one user, who approves or rejects
Caller(t) == IF t = 1 THEN "bob" ELSE "carol"

\* the entries get_pending_reviews would list, as a set
ListingSet(es, h) ==
    LET l == Listing(es, h, 1) IN {l[i] : i \in 1..Len(l)}

\* the running get_pending_reviews calls see pending become es
Observed(f, es, h) ==
    [u \in Threads |->
        IF pc[u] = "next"
        THEN [f[u] EXCEPT !.seen = @ \cup {ListingSet(es, h)}]
        ELSE f[u]]

\* the call of thread t ends and hands r to its caller
Return(t, f, r) ==
    /\ pc' = [pc EXCEPT ![t] = "idle"]
    /\ frame' = [f EXCEPT ![t] = NoCall]
    /\ last' = r

Goto(t, label) == pc' = [pc EXCEPT ![t] = label]

\* the clock moves on while the threads run
T_Tick ==
    /\ now < MaxTime
    /\ now' = now + 1
    /\ UNCHANGED <<heap, pending, completed, last, thVars, pipeVars>>

\* a thread calls submit_for_review(report, reviewer) and runs line 353:
\* review_id from report.session_id and the clock
T_Submit353(t, report, reviewer) ==
    /\ pc[t] = "idle"
    /\ Len(heap) + Cardinality({u \in Threads : pc[u] = "355"}) < MaxObjects
    /\ IF report = NoReport
       THEN Return(t, frame, [op |-> "submit_for_review", result |-> FALSE])
       ELSE /\ Goto(t, "355")
            /\ frame' = [frame EXCEPT ![t] =
                  [op |-> "submit_for_review", report |-> report,
                   reviewer |-> reviewer,
                   review_id |-> ReviewId(report.session_id, now)]]
            /\ UNCHANGED last
    /\ UNCHANGED <<wfVars, everSubmitted, pipeVars>>

\* lines 355-363: the record is built and stored under review_id
T_Submit355(t) ==
    /\ pc[t] = "355"
    /\ LET rec == [report |-> frame[t].report, reviewer |-> frame[t].reviewer,
                   submitted_at |-> now, status |-> "pending"]
           obj == Len(heap) + 1
       IN /\ heap' = Append(heap, rec)
          /\ pending' = StoreItem(pending, frame[t].review_id, obj)
          /\ Return(t, Observed(frame, pending', heap'),
                    [op |-> "submit_for_review", result |-> TRUE,
                     review_id |-> frame[t].review_id])
    /\ everSubmitted' = everSubmitted \cup {frame[t].review_id}
    /\ UNCHANGED <<now, completed, pipeVars>>

\* what a transition call hands back: wrote says whether it had written to
\* the record before it returned, rival whether another call on the same
\* review_id returned True while this one was running
Outcome(f, result, wrote) ==
    [op |-> f.op, review_id |-> f.review_id, result |-> result,
     wrote |-> wrote, rival |-> f.rival]

\* a transition of review_id has returned True: the running calls on the
\* same review_id have a rival that won
Won(f, t, review_id) ==
    [u \in Threads |->
        IF u # t /\ f[u].op \in {"approve_report", "reject_report"}
                 /\ f[u].review_id = review_id
        THEN [f[u] EXCEPT !.rival = TRUE]
        ELSE f[u]]

\* a thread calls approve_report (kind "approve_report": by is the approver,
\* note the comments) or reject_report (by is the rejector, note the reasons)
\* and runs lines 387-388 / 424-425: if review_id not in
\* self.pending_reviews: raise
T_Check(t, kind, review_id, by, note) ==
    /\ pc[t] = "idle"
    /\ LET f == [op |-> kind, review_id |-> review_id, by |-> by, note |-> note,
                 review |-> 0, rival |-> FALSE]
       IN IF review_id \notin Keys(pending)
          THEN Return(t, frame, Outcome(f, FALSE, FALSE))
          ELSE /\ Goto(t, "fetch")
               /\ frame' = [frame EXCEPT ![t] = f]
               /\ UNCHANGED last
    /\ UNCHANGED <<wfVars, everSubmitted, pipeVars>>

\* line 390 / 427: review = self.pending_reviews[review_id], a KeyError if
\* the key has gone since the test
T_Fetch(t) ==
    /\ pc[t] = "fetch"
    /\ IF frame[t].review_id \notin Keys(pending)
       THEN Return(t, frame, Outcome(frame[t], FALSE, FALSE))
       ELSE /\ Goto(t, "status")
            /\ frame' = [frame EXCEPT ![t].review = GetItem(pending, frame[t].review_id)]
            /\ UNCHANGED last
    /\ UNCHANGED <<wfVars, everSubmitted, pipeVars>>

Approving(t) == frame[t].op = "approve_report"

\* review[key] = value on the record the thread holds
T_Write(t, at, key, value, next) ==
    /\ pc[t] = at
    /\ heap' = [heap EXCEPT ![frame[t].review] = SetItem(@, key, value)]
    /\ Goto(t, next)
    /\ UNCHANGED <<now, pending, completed, last, frame, everSubmitted, pipeVars>>

\* line 391 / 428
T_SetStatus(t) ==
    T_Write(t, "status", "status",
            IF Approving(t) THEN "approved" ELSE "rejected", "by")
\* line 392 / 429
T_SetBy(t) ==
    T_Write(t, "by", IF Approving(t) THEN "approved_by" ELSE "rejected_by",
            frame[t].by, "at")
\* line 393 / 430
T_SetAt(t) ==
    T_Write(t, "at", IF Approving(t) THEN "approved_at" ELSE "rejected_at",
            now, "note")
\* line 394 / 431
T_SetNote(t) ==
    T_Write(t, "note", IF Approving(t) THEN "comments" ELSE "reasons",
            frame[t].note, "complete")

\* line 396 / 433: self.completed_reviews[review_id] = review
T_Complete(t) ==
    /\ pc[t] = "complete"
    /\ completed' = MapStore(completed, frame[t].review_id, frame[t].review)
    /\ Goto(t, "del")
    /\ UNCHANGED <<now, heap, pending, last, frame, everSubmitted, pipeVars>>

\* line 397 / 434: del self.pending_reviews[review_id], a KeyError if the
\* key has gone; then return True
T_Del(t) ==
    /\ pc[t] = "del"
    /\ IF frame[t].review_id \in Keys(pending)
       THEN /\ pending' = DelItem(pending, frame[t].review_id)
            /\ Return(t, Won(Observed(frame, pending', heap), t, frame[t].review_id),
                      Outcome(frame[t], TRUE, TRUE))
       ELSE /\ UNCHANGED pending
            /\ Return(t, frame, Outcome(frame[t], FALSE, TRUE))
    /\ UNCHANGED <<now, heap, completed, everSubmitted, pipeVars>>

\* a thread calls get_pending_reviews() and runs line 453:
\* self.pending_reviews.items() and the iterator over it, which notes the
\* size of the dict
T_Iter(t) ==
    /\ pc[t] = "idle"
    /\ Goto(t, "next")
    /\ frame' = [frame EXCEPT ![t] =
          [op |-> "get_pending_reviews",
           di_used |-> Cardinality(Keys(pending)), di_pos |-> 1,
           di_len |-> Cardinality(Keys(pending)), out |-> <<>>,
           seen |-> {ListingSet(pending, heap)}]]
    /\ UNCHANGED <<wfVars, last, everSubmitted, pipeVars>>

\* what get_pending_reviews hands back, or that it raised
Listed(t, raised) ==
    [op |-> "get_pending_reviews", raised |-> raised,
     result |-> frame[t].out, seen |-> frame[t].seen]

\* lines 445-453: one round of the comprehension.  The iterator raises
\* RuntimeError when the dict has changed size, or when it finds an entry
\* beyond those it counted; nothing in get_pending_reviews catches it.
T_Next(t) ==
    /\ pc[t] = "next"
    /\ LET f == frame[t]
           rest == {i \in LiveIdx(pending) : i >= f.di_pos}
       IN IF f.di_used # Cardinality(Keys(pending))
          THEN Return(t, frame, Listed(t, TRUE))
          ELSE IF rest = {}
          THEN Return(t, frame, Listed(t, FALSE))
          ELSE IF f.di_len = 0
          THEN Return(t, frame, Listed(t, TRUE))
          ELSE LET i == CHOOSE j \in rest : \A k \in rest : j <= k
               IN /\ frame' = [frame EXCEPT
                       ![t].out = Append(@, PendingEntry(pending[i].k, heap[pending[i].v])),
                       ![t].di_pos = i + 1,
                       ![t].di_len = @ - 1]
                  /\ UNCHANGED <<pc, last>>
    /\ UNCHANGED <<wfVars, everSubmitted, pipeVars>>

NextThreads ==
    \/ T_Tick
    \/ \E t \in Threads :
         \/ \E report \in ThreadReports \cup {NoReport}, reviewer \in Reviewers :
              T_Submit353(t, report, reviewer)
         \/ T_Submit355(t)
         \/ \E review_id \in ThreadReviewIds :
              \/ \E comments \in Comments :
                   T_Check(t, "approve_report", review_id, Caller(t), comments)
              \/ \E reasons \in Reasons :
                   T_Check(t, "reject_report", review_id, Caller(t), reasons)
         \/ T_Fetch(t)
         \/ T_SetStatus(t)
         \/ T_SetBy(t)
         \/ T_SetAt(t)
         \/ T_SetNote(t)
         \/ T_Complete(t)
         \/ T_Del(t)
         \/ T_Iter(t)
         \/ T_Next(t)

SpecThreads == Init /\ [][NextThreads]_vars

---------------------------------------------------------------------------
(* Claims about the ReviewWorkflow, one call at a time (Spec)              *)

Returned(op, result) == last.op = op /\ last.result = result

\* C1: approve_report and reject_report on a review_id that is not in
\* pending return False and leave pending, completed and every record as
\* they were.
C1_UnknownIdLeavesState ==
    [][\A review_id \in ReviewIds, by \in Approvers :
         (/\ review_id \notin Keys(pending)
          /\ \/ \E comments \in Comments : approve_report(review_id, by, comments)
             \/ \E reasons \in Reasons : reject_report(review_id, by, reasons))
         => /\ last'.result = FALSE
            /\ AsMap(pending') = AsMap(pending)
            /\ completed' = completed
            /\ heap' = heap]_vars

\* a call on an unknown id has returned False with both collections filled
C1_Witness ==
    /\ last.op \in {"approve_report", "reject_report"}
    /\ last.result = FALSE
    /\ Keys(pending) # {}
    /\ DOMAIN completed # {}

\* what approve_report / reject_report on a pending review_id must do
MovedTo(review_id, status, extra) ==
    /\ last'.result = TRUE
    /\ Keys(pending') = Keys(pending) \ {review_id}
    /\ DOMAIN completed' = (DOMAIN completed) \cup {review_id}
    /\ CompletedRec(review_id)' =
          [x \in (DOMAIN PendingRec(review_id)) \cup (DOMAIN extra) \cup {"status"} |->
              IF x = "status" THEN status
              ELSE IF x \in DOMAIN extra THEN extra[x]
              ELSE PendingRec(review_id)[x]]
    /\ \A k \in Keys(pending') : PendingRec(k)' = PendingRec(k)
    /\ \A k \in (DOMAIN completed) \ {review_id} : CompletedRec(k)' = CompletedRec(k)
    /\ LET listing == Listing(pending', heap', 1)
       IN \A i \in 1..Len(listing) : listing[i].review_id # review_id

\* C2: approve_report (reject_report) on a pending review_id returns True,
\* removes exactly that id from pending, puts exactly that id into completed
\* with status approved (rejected) and the approver and comments (rejector
\* and reasons) given, get_pending_reviews no longer lists it, and every
\* other record is left as it was.
C2_TransitionMovesRecord ==
    [][\A review_id \in Keys(pending), by \in Approvers :
         /\ \A comments \in Comments :
               approve_report(review_id, by, comments)
               => MovedTo(review_id, "approved",
                          [approved_by |-> by, approved_at |-> now,
                           comments |-> comments])
         /\ \A reasons \in Reasons :
               reject_report(review_id, by, reasons)
               => MovedTo(review_id, "rejected",
                          [rejected_by |-> by, rejected_at |-> now,
                           reasons |-> reasons])]_vars

\* an approval has gone through while another review is still pending
C2_Witness ==
    /\ Returned("approve_report", TRUE)
    /\ Keys(pending) # {}
    /\ \E k \in DOMAIN completed : CompletedRec(k)["status"] = "approved"

\* C3: once a review_id is in completed, its record never changes again and
\* the review_id never reappears in pending.
C3_CompletedIsTerminal ==
    [][\A review_id \in DOMAIN completed :
         /\ review_id \in DOMAIN completed'
         /\ CompletedRec(review_id)' = CompletedRec(review_id)
         /\ review_id \notin Keys(pending')]_vars

\* C6: a submit_for_review that returns True adds exactly one record, under
\* a review_id that was in neither collection, and leaves every record that
\* was there as it was.
C6_SubmitAddsFreshRecord ==
    [][\A report \in Reports, reviewer \in Reviewers :
         (submit_for_review(report, reviewer) /\ last'.result = TRUE)
         => /\ \E review_id \in ReviewIds :
                 /\ review_id \notin Keys(pending) \cup DOMAIN completed
                 /\ Keys(pending') = Keys(pending) \cup {review_id}
            /\ \A k \in Keys(pending) : PendingRec(k)' = PendingRec(k)
            /\ \A k \in DOMAIN completed : CompletedRec(k)' = CompletedRec(k)]_vars

---------------------------------------------------------------------------
(* Claims about the ReviewWorkflow called from several threads             *)
(* (SpecThreads)                                                           *)

\* C4: in every state a thread can observe, each review_id that was ever
\* submitted is in exactly one of pending and completed.
C4_MoveIsAtomic ==
    \A review_id \in everSubmitted :
        (review_id \in Keys(pending)) # (review_id \in DOMAIN completed)

\* C5: of two approve_report / reject_report calls that run at the same time
\* on one pending review_id, at most one returns True; the other returns
\* False as a call on an unknown review_id does, having written nothing.
C5_OneWinner ==
    last.op \in {"approve_report", "reject_report"}
    => /\ ~(last.result /\ last.rival)
       /\ ~last.result => ~last.wrote

\* C7: get_pending_reviews completes without raising whatever the other
\* threads do, and returns one entry per record of a pending collection that
\* existed during the call.
C7_ListingIsSafe ==
    last.op = "get_pending_reviews"
    => /\ ~last.raised
       /\ {last.result[i] : i \in 1..Len(last.result)} \in last.seen
       /\ \A i, j \in 1..Len(last.result) :
            last.result[i] = last.result[j] => i = j

ApprovalFields == {"approved_by", "approved_at", "comments"}
RejectionFields == {"rejected_by", "rejected_at", "reasons"}

\* C22: in every state a thread can observe, a record of pending has status
\* "pending" and none of the approval and rejection fields, and a record of
\* completed has status "approved" with the approval fields and no rejection
\* field, or status "rejected" with the rejection fields and no approval
\* field.
C22_MembershipMatchesRecord ==
    /\ \A key \in Keys(pending) :
         /\ PendingRec(key)["status"] = "pending"
         /\ DOMAIN PendingRec(key) \cap (ApprovalFields \cup RejectionFields) = {}
    /\ \A key \in DOMAIN completed :
         \/ /\ CompletedRec(key)["status"] = "approved"
            /\ ApprovalFields \subseteq DOMAIN CompletedRec(key)
            /\ DOMAIN CompletedRec(key) \cap RejectionFields = {}
         \/ /\ CompletedRec(key)["status"] = "rejected"
            /\ RejectionFields \subseteq DOMAIN CompletedRec(key)
            /\ DOMAIN CompletedRec(key) \cap ApprovalFields = {}

---------------------------------------------------------------------------
(* Text.  A str is a sequence of tokens, each token standing for the       *)
(* characters it names; re and str work on the character classes below.    *)
(* Tokens outside ASCII carry their code point or a transliteration.       *)

\* (kehu|yonghu|Customer|User): the speaker labels of the first pattern
Markers == {"kehu", "yonghu", "Customer", "User"}
\* ':' and the full-width colon of [U+FF1A:]
Colons == {":", "U+FF1A"}
\* what \s and str.strip() take
Whitespace == {" ", "\n"}
OpenParens == {"(", "U+FF08"}
CloseParens == {")", "U+FF09"}
\* a lone surrogate: a str can hold it, str.encode() cannot encode it
Surrogate == "U+D800"
\* the tokens that are no \w characters
NonWord == Colons \cup Whitespace \cup OpenParens \cup CloseParens
           \cup {"[", "]", "{", "}", ",", "\"", Surrogate, "U+FF0C", "U+FF1F"}
IsWord(c) == c \notin NonWord

Min(S) == CHOOSE x \in S : \A y \in S : x <= y

\* str.strip()
RECURSIVE lstrip(_)
lstrip(s) ==
    IF s # <<>> /\ Head(s) \in Whitespace THEN lstrip(Tail(s)) ELSE s
RECURSIVE rstrip(_)
rstrip(s) ==
    IF s # <<>> /\ s[Len(s)] \in Whitespace
    THEN rstrip(SubSeq(s, 1, Len(s) - 1)) ELSE s
strip(s) == rstrip(lstrip(s))

\* sep in s, and s.split(sep, 1)
Contains(s, sep) == \E i \in 1..Len(s) : s[i] = sep
Split1(s, sep) ==
    LET i == Min({k \in 1..Len(s) : s[k] = sep})
    IN <<SubSeq(s, 1, i - 1), SubSeq(s, i + 1, Len(s))>>
\* s.split(sep)
RECURSIVE split(_, _)
split(s, sep) ==
    IF ~Contains(s, sep) THEN <<s>>
    ELSE <<Split1(s, sep)[1]>> \o split(Split1(s, sep)[2], sep)
\* ' '.join(parts)
RECURSIVE join(_)
join(parts) ==
    IF parts = <<>> THEN <<>>
    ELSE IF Len(parts) = 1 THEN parts[1]
    ELSE parts[1] \o <<" ">> \o join(Tail(parts))

---------------------------------------------------------------------------
(* re.findall with the three patterns of extract_dialogue_turns, all under *)
(* re.DOTALL.  A position is the index of the next token to take;          *)
(* Len(s) + 1 is the end of the string.                                    *)

\* $ without re.MULTILINE: the end, or just before a newline that ends s
AtEnd(s, j) == j = Len(s) + 1 \/ (j = Len(s) /\ s[j] = "\n")
\* (kehu|yonghu|Customer|User)[U+FF1A:] at j
MarkerAt(s, j) == j + 1 <= Len(s) /\ s[j] \in Markers /\ s[j + 1] \in Colons
\* \s* from p, greedy: the first position that holds no whitespace
SkipWs(s, p) ==
    Min({q \in p..Len(s) + 1 : q = Len(s) + 1 \/ s[q] \notin Whitespace})
\* \s*(.+?) or \s*(.+) from p <= Len(s): where the group starts.  When
\* whitespace runs to the end, \s* gives its last character to the group.
GroupStart(s, p) == IF SkipWs(s, p) > Len(s) THEN Len(s) ELSE SkipWs(s, p)

NoMatch == [ok |-> FALSE, end |-> 0, groups |-> <<>>]

\* (kehu|yonghu|Customer|User)[U+FF1A:]\s*(.+?)(?=(kehu|...|User)[U+FF1A:]|$)
\* groups: the label, the utterance, the label the lookahead saw ('' at $)
Match1(s, i) ==
    IF ~MarkerAt(s, i) \/ i + 2 > Len(s) THEN NoMatch
    ELSE LET p == GroupStart(s, i + 2)
             j == Min({k \in p + 1..Len(s) + 1 : MarkerAt(s, k) \/ AtEnd(s, k)})
         IN [ok |-> TRUE, end |-> j,
             groups |-> <<<<s[i]>>, SubSeq(s, p, j - 1),
                          IF MarkerAt(s, j) THEN <<s[j]>> ELSE <<>>>>]

\* \[(.*?)\]\s*(.+?)(?=\[|$)
\* groups: what the brackets hold, the utterance
Match2(s, i) ==
    LET rs == {r \in i + 1..Len(s) - 1 : s[r] = "]"}
    IN IF s[i] # "[" \/ rs = {} THEN NoMatch
       ELSE LET r == Min(rs)
                p == GroupStart(s, r + 1)
                j == Min({k \in p + 1..Len(s) + 1 :
                            AtEnd(s, k) \/ (k <= Len(s) /\ s[k] = "[")})
            IN [ok |-> TRUE, end |-> j,
                groups |-> <<SubSeq(s, i + 1, r - 1), SubSeq(s, p, j - 1)>>]

\* (\w+)[U+FF08(](.+?)[U+FF09)]\s*(.+)
\* groups: the word, what the parentheses hold, the rest of the string
Match3(s, i) ==
    IF ~IsWord(s[i]) THEN NoMatch
    ELSE LET b == Min({k \in i..Len(s) : k = Len(s) \/ ~IsWord(s[k + 1])})
             cs == {c \in b + 3..Len(s) - 1 : s[c] \in CloseParens}
         IN IF b = Len(s) \/ s[b + 1] \notin OpenParens \/ cs = {} THEN NoMatch
            ELSE LET c == Min(cs)
                 IN [ok |-> TRUE, end |-> Len(s) + 1,
                     groups |-> <<SubSeq(s, i, b), SubSeq(s, b + 2, c - 1),
                                  SubSeq(s, GroupStart(s, c + 1), Len(s))>>]

Match(n, s, i) ==
    CASE n = 1 -> Match1(s, i) [] n = 2 -> Match2(s, i) [] n = 3 -> Match3(s, i)

\* re.findall(patterns[n], s, re.DOTALL), scanning from position i
RECURSIVE findall(_, _, _)
findall(n, s, i) ==
    IF i > Len(s) THEN <<>>
    ELSE IF Match(n, s, i).ok
    THEN <<Match(n, s, i).groups>> \o findall(n, s, Match(n, s, i).end)
    ELSE findall(n, s, i + 1)

---------------------------------------------------------------------------
(* ConversationParser: the text branch                                     *)

\* Python values that turn up as speaker, content or session_id: a str
\* (its tokens), a number (its digits), None, a list (its elements), a dict
Str(v) == [str |-> v]
\* type(x), and what x holds
type(x) == CHOOSE t \in DOMAIN x : TRUE
Val(x) == x[type(x)]
\* the default speaker of the line scanner and of the JSON branch
Unknown == Str(<<"weizhi">>)

DialogueTurn(speaker, content) == [speaker |-> speaker, content |-> content]

\* lines 138-146: one turn per match whose last group is not blank
RECURSIVE MatchTurns(_)
MatchTurns(matches) ==
    IF matches = <<>> THEN <<>>
    ELSE LET match == Head(matches)
             speaker == strip(match[1])
             content == strip(match[Len(match)])
         IN (IF content # <<>>
             THEN <<DialogueTurn(Str(speaker), Str(content))>> ELSE <<>>)
            \o MatchTurns(Tail(matches))

\* lines 174-178: what is left in current_content becomes the last turn
Flush(current_speaker, current_content) ==
    IF current_content # <<>>
    THEN <<DialogueTurn(Str(current_speaker), Str(join(current_content)))>>
    ELSE <<>>

\* lines 155-172: the line scanner, from line k on
RECURSIVE ScanLines(_, _, _, _)
ScanLines(lines, k, current_speaker, current_content) ==
    IF k > Len(lines) THEN Flush(current_speaker, current_content)
    ELSE LET line == strip(lines[k])
         IN IF line = <<>>
            THEN ScanLines(lines, k + 1, current_speaker, current_content)
            ELSE IF Contains(line, ":")
            THEN Flush(current_speaker, current_content)
                 \o ScanLines(lines, k + 1, strip(Split1(line, ":")[1]),
                              <<strip(Split1(line, ":")[2])>>)
            ELSE ScanLines(lines, k + 1, current_speaker,
                           Append(current_content, line))

\* extract_dialogue_turns(conversation): the first pattern that matches
\* anywhere decides the turns; without a turn the line scanner takes over
extract_dialogue_turns(text) ==
    LET matches == IF findall(1, text, 1) # <<>> THEN findall(1, text, 1)
                   ELSE IF findall(2, text, 1) # <<>> THEN findall(2, text, 1)
                   ELSE findall(3, text, 1)
        turns == MatchTurns(matches)
    IN IF turns # <<>> THEN turns
       ELSE ScanLines(split(text, "\n"), 1, <<"weizhi">>, <<>>)

---------------------------------------------------------------------------
(* json.loads on a token string                                            *)

Num(v) == [num |-> v]
List(items) == [list |-> items]
\* a dict keeps its pairs [k, v] as the document gives them; a later pair
\* with the same key is the one that counts
Dict(pairs) == [dict |-> pairs]

\* a float, by its whole part and the digits of its fraction
Float(v) == [float |-> v]

Digits == {"0", "1", "2", "3", "4", "5", "6", "7", "8", "9"}
Tok(s, i) == IF i <= Len(s) THEN s[i] ELSE "EOF"
Fail == [ok |-> FALSE, v |-> PyNone, next |-> 0, exc |-> "JSONDecodeError"]
Ok(v, next) == [ok |-> TRUE, v |-> v, next |-> next, exc |-> ""]
\* the arrays and objects json.loads enters one inside the other before the
\* interpreter stops it: sys.getrecursionlimit(), scaled down
RecursionLimit == 4
\* RecursionError: maximum recursion depth exceeded while decoding a JSON
\* array, or object; it is no json.JSONDecodeError
TooDeep == [ok |-> FALSE, v |-> PyNone, next |-> 0, exc |-> "RecursionError"]

\* the character a backslash escape stands for (\b, \f, \r and \uXXXX are
\* not among the tokens)
Escapes == {"\"", "\\", "/", "n", "t"}
Unescape(c) ==
    CASE c = "n" -> "\n"
      [] c = "t" -> "\t"
      [] OTHER -> c
\* a string, from the token after its opening quote: up to the next quote
\* that no backslash escapes, and no control character in between
RECURSIVE ScanChars(_, _, _)
ScanChars(s, i, acc) ==
    LET c == Tok(s, i)
    IN IF c \in {"EOF", "\n", "\t"} THEN Fail
       ELSE IF c = "\"" THEN Ok(Str(acc), i + 1)
       ELSE IF c = "\\"
       THEN IF Tok(s, i + 1) \in Escapes
            THEN ScanChars(s, i + 2, Append(acc, Unescape(Tok(s, i + 1))))
            ELSE Fail
       ELSE ScanChars(s, i + 1, Append(acc, c))
ScanString(s, i) == ScanChars(s, i, <<>>)

DecimalDigits == {"0", "1", "2", "3", "4", "5", "6", "7", "8", "9"}
DigitValue(d) ==
    CASE d = "0" -> 0 [] d = "1" -> 1 [] d = "2" -> 2 [] d = "3" -> 3
      [] d = "4" -> 4 [] d = "5" -> 5 [] d = "6" -> 6 [] d = "7" -> 7
      [] d = "8" -> 8 [] d = "9" -> 9
\* \d+ from i, greedy: the last digit of the run (i - 1 when there is none)
DigitsEnd(s, i) ==
    Min({e \in i - 1..Len(s) : Tok(s, e + 1) \notin DecimalDigits})

\* int(digits)
RECURSIVE int(_)
int(ds) ==
    IF ds = <<>> THEN 0
    ELSE int(SubSeq(ds, 1, Len(ds) - 1)) * 10 + DigitValue(ds[Len(ds)])
\* the digits of a fraction, without the zeros that end it
RECURSIVE fraction(_)
fraction(ds) ==
    IF ds # <<>> /\ ds[Len(ds)] = "0" THEN fraction(SubSeq(ds, 1, Len(ds) - 1))
    ELSE ds
\* float(text) for text matching \d+\.?\d*: its whole part and its fraction
float(text) ==
    IF Contains(text, ".")
    THEN [whole |-> int(Split1(text, ".")[1]), frac |-> fraction(Split1(text, ".")[2])]
    ELSE [whole |-> int(text), frac |-> <<>>]

\* a number: 0 or a run of digits that 0 does not start, an int; with a
\* point and a run of digits after it, a float (signs and exponents are not
\* among the tokens)
ScanNumber(s, i) ==
    LET e == IF s[i] = "0" THEN i ELSE DigitsEnd(s, i)
    IN IF Tok(s, e + 1) = "." /\ Tok(s, e + 2) \in Digits
       THEN Ok(Float(float(SubSeq(s, i, DigitsEnd(s, e + 2)))),
               DigitsEnd(s, e + 2) + 1)
       ELSE Ok(Num(SubSeq(s, i, e)), e + 1)

RECURSIVE ScanOnce(_, _, _)
RECURSIVE ScanItems(_, _, _, _)
RECURSIVE ScanPairs(_, _, _, _)

\* the elements of an array, from the first token of an element; depth is
\* the number of arrays and objects the reader is in
ScanItems(s, i, acc, depth) ==
    LET r == ScanOnce(s, i, depth)
        j == SkipWs(s, r.next)
    IN IF ~r.ok THEN r
       ELSE IF Tok(s, j) = "]" THEN Ok(List(Append(acc, r.v)), j + 1)
       ELSE IF Tok(s, j) = ","
       THEN ScanItems(s, SkipWs(s, j + 1), Append(acc, r.v), depth)
       ELSE Fail

\* the pairs of an object, from the quote that opens a key
ScanPairs(s, i, acc, depth) ==
    LET key == ScanString(s, i + 1)
        c == SkipWs(s, key.next)
        r == ScanOnce(s, SkipWs(s, c + 1), depth)
        j == SkipWs(s, r.next)
        pairs == Append(acc, [k |-> key.v.str, v |-> r.v])
    IN IF Tok(s, i) # "\"" THEN Fail
       ELSE IF ~key.ok THEN Fail
       ELSE IF Tok(s, c) # ":" THEN Fail
       ELSE IF ~r.ok THEN r
       ELSE IF Tok(s, j) = "}" THEN Ok(Dict(pairs), j + 1)
       ELSE IF Tok(s, j) = "," THEN ScanPairs(s, SkipWs(s, j + 1), pairs, depth)
       ELSE Fail

\* one JSON value at position i
ScanOnce(s, i, depth) ==
    LET c == Tok(s, i)
    IN IF c = "\"" THEN ScanString(s, i + 1)
       ELSE IF c \in {"{", "["} /\ depth >= RecursionLimit THEN TooDeep
       ELSE IF c = "{"
       THEN IF Tok(s, SkipWs(s, i + 1)) = "}"
            THEN Ok(Dict(<<>>), SkipWs(s, i + 1) + 1)
            ELSE ScanPairs(s, SkipWs(s, i + 1), <<>>, depth + 1)
       ELSE IF c = "["
       THEN IF Tok(s, SkipWs(s, i + 1)) = "]"
            THEN Ok(List(<<>>), SkipWs(s, i + 1) + 1)
            ELSE ScanItems(s, SkipWs(s, i + 1), <<>>, depth + 1)
       ELSE IF c = "null" THEN Ok(PyNone, i + 1)
       ELSE IF c \in Digits THEN ScanNumber(s, i)
       ELSE Fail

\* json.loads(s): one value, whitespace around it and nothing else;
\* ok = FALSE is the exception exc
json_loads(s) ==
    LET r == ScanOnce(s, SkipWs(s, 1), 0)
    IN IF r.ok /\ SkipWs(s, r.next) # Len(s) + 1 THEN Fail ELSE r

\* d.get(key, default) on a dict
RECURSIVE get(_, _, _)
get(pairs, key, default) ==
    IF pairs = <<>> THEN default
    ELSE IF pairs[Len(pairs)].k = key THEN pairs[Len(pairs)].v
    ELSE get(SubSeq(pairs, 1, Len(pairs) - 1), key, default)

---------------------------------------------------------------------------
(* ConversationParser.parse_conversation                                   *)

ParsedConversation(session_id, participants, turns, metadata) ==
    [session_id |-> session_id, participants |-> participants,
     turns |-> turns, metadata |-> metadata]

\* a value set() cannot hold
Unhashable(v) == type(v) \in {"list", "dict"}
\* the participants without the set(): one entry per turn
participants_listed(turns) == {[i \in 1..Len(turns) |-> turns[i].speaker]}

\* list(set(turn.speaker for turn in turns)): the distinct speakers, in
\* whatever order the set yields them
participants_of(turns) ==
    LET speakers == {turns[i].speaker : i \in 1..Len(turns)}
    IN {p \in [1..Cardinality(speakers) -> speakers] :
           \A i, j \in 1..Cardinality(speakers) : p[i] = p[j] => i = j}

\* hashlib.md5(raw_content.encode()).hexdigest()[:12]: hexadecimal digits
\* that the content determines
md5_12(s) == Str(<<"md5">> \o s)

\* _parse_text(raw_content)
parse_text(text) ==
    LET turns == extract_dialogue_turns(text)
    IN IF Contains(text, Surrogate)
       THEN {Raises("UnicodeEncodeError: surrogates not allowed")}
       ELSE {Returns(ParsedConversation(md5_12(text), p, turns,
                                        [format |-> "text"])) :
               p \in participants_of(turns)}

\* lines 253-269: one DialogueTurn per element, each element asked with .get
json_turn(turn) ==
    DialogueTurn(get(turn.dict, <<"speaker">>, Unknown),
                 get(turn.dict, <<"content">>, Str(<<>>)))

\* what a for loop over the value yields: the elements of a list, the keys
\* of a dict, the characters of a str
Elements(v) ==
    CASE type(v) = "list" -> v.list
      [] type(v) = "dict" -> [i \in 1..Len(v.dict) |-> Str(v.dict[i].k)]
      [] type(v) = "str" -> [i \in 1..Len(v.str) |-> Str(<<v.str[i]>>)]

\* bool(v) is False
Falsy(v) == type(v) # "num" /\ Val(v) = <<>>

\* lines 253-284 once the turns are to be read from the value source;
\* session_id is the local variable, unbound when the document is a list
json_conversation(source, bound, session_id) ==
    LET elements == Elements(source)
        turns == [i \in 1..Len(elements) |-> json_turn(elements[i])]
    IN IF type(source) \in {"num", "none"}
       THEN {Raises("TypeError: object is not iterable")}
       ELSE IF \E i \in 1..Len(elements) : type(elements[i]) # "dict"
       THEN {Raises("AttributeError: object has no attribute 'get'")}
       ELSE IF \E i \in 1..Len(turns) : Unhashable(turns[i].speaker)
       THEN {Raises("TypeError: unhashable type")}
       ELSE IF ~bound
       THEN {Raises("UnboundLocalError: session_id")}
       ELSE {Returns(ParsedConversation(
                        IF Falsy(session_id) THEN Str(<<"json_session">>)
                        ELSE session_id,
                        p, turns, [format |-> "json"])) :
               p \in participants_of(turns)}

\* _parse_json(raw_content)
parse_json(text) ==
    LET data == json_loads(text).v
    IN IF json_loads(text).exc = "RecursionError"
       THEN {Raises("RecursionError")}
       ELSE IF ~json_loads(text).ok
       THEN {Returns(ParsedConversation(Str(<<"parse_error">>), <<>>, <<>>,
                                        [error |-> "JSONDecodeError"]))}
       ELSE IF type(data) = "list"
       THEN json_conversation(data, FALSE, PyNone)
       ELSE IF type(data) = "dict"
       THEN json_conversation(
                get(data.dict, <<"turns">>,
                    get(data.dict, <<"conversation">>, List(<<>>))),
                TRUE, get(data.dict, <<"session_id">>, Str(<<"json_session">>)))
       ELSE {Returns(ParsedConversation(Str(<<"parse_error">>), <<>>, <<>>,
                                        [error |-> "invalid JSON format"]))}

\* the branch parse_conversation takes for a format hint
Branch(text, format_type) ==
    IF format_type = "json" THEN parse_json(text) ELSE parse_text(text)

\* parse_conversation with the except clause of line 106 lost
parse_conversation_uncaught(format_type) ==
    /\ \E o \in Branch(raw_content, format_type) :
         /\ conversation' = IF o.raised THEN conversation ELSE o.value
         /\ last' = [op |-> "parse_conversation", format_type |-> format_type,
                     raised |-> o.raised, exc |-> o.exc, result |-> o.value]
    /\ UNCHANGED <<wfVars, thVars, raw_content, llm, batchVars, reportVars>>

\* parse_conversation(raw_content, format_type)
parse_conversation(format_type) ==
    /\ \E o \in Branch(raw_content, format_type) :
         LET result == IF o.raised
                       THEN ParsedConversation(Str(<<"parse_error">>), <<>>, <<>>,
                                               [error |-> o.exc])
                       ELSE o.value
         IN /\ conversation' = result
            /\ last' = [op |-> "parse_conversation", format_type |-> format_type,
                        raised |-> FALSE, exc |-> "", result |-> result]
    /\ UNCHANGED <<wfVars, thVars, raw_content, llm, batchVars, reportVars>>

\* lines 211-224: what detect_format(content) returns or raises; the except
\* of line 219 takes json.JSONDecodeError only
detect(content) ==
    LET text == strip(content)
        loaded == json_loads(text)
    IN IF Tok(text, 1) \in {"{", "["} /\ loaded.ok THEN Returns("json")
       ELSE IF Tok(text, 1) \in {"{", "["} /\ loaded.exc # "JSONDecodeError"
       THEN Raises(loaded.exc)
       ELSE IF Contains(text, ":") \/ Contains(text, "U+FF1A") THEN Returns("text")
       ELSE Returns("unknown")

\* detect_format(raw_content); after is the hint of the parse_conversation
\* call it follows, as in the router
detect_format ==
    /\ last' = [op |-> "detect_format", content |-> raw_content,
                after |-> IF last.op = "parse_conversation"
                          THEN last.format_type ELSE "none",
                raised |-> detect(raw_content).raised,
                exc |-> detect(raw_content).exc,
                result |-> detect(raw_content).value]
    /\ UNCHANGED <<wfVars, thVars, pipeVars>>

---------------------------------------------------------------------------
(* The contents handed to parse_conversation (SpecParse): texts of a few   *)
(* lines in the layouts the patterns look for, JSON documents as           *)
(* json.dumps writes them, and every short string of tokens.               *)

\* lines of a text, and turns of a JSON document
MaxTurns == 2
\* tokens of an arbitrary string
MaxJunk == 2

\* one speaker label the first pattern knows and one it does not
Labels == {"User", "a"}
Utterances == {<<>>, <<"b">>}
TextLines ==
    {<<l, c>> \o u : l \in Labels, c \in Colons, u \in Utterances}
    \cup {<<"[", l, "]", "b">> : l \in Labels}
    \cup {<<l, "(", "b", ")", "b">> : l \in Labels}
    \cup Utterances
LineBreaks == {<<"\n">>, <<>>}
RECURSIVE Texts(_)
Texts(n) ==
    IF n = 0 THEN {<<>>}
    ELSE Texts(n - 1)
         \cup {t \o br \o l : t \in Texts(n - 1), br \in LineBreaks, l \in TextLines}

\* json.dumps(v)
RECURSIVE dumps(_)
RECURSIVE dumps_items(_)
RECURSIVE dumps_pairs(_)
dumps_items(items) ==
    IF items = <<>> THEN <<>>
    ELSE IF Len(items) = 1 THEN dumps(items[1])
    ELSE dumps(items[1]) \o <<",", " ">> \o dumps_items(Tail(items))
dumps_pairs(pairs) ==
    IF pairs = <<>> THEN <<>>
    ELSE <<"\"">> \o pairs[1].k \o <<"\"", ":", " ">> \o dumps(pairs[1].v)
         \o (IF Len(pairs) = 1 THEN <<>>
             ELSE <<",", " ">> \o dumps_pairs(Tail(pairs)))
dumps(v) ==
    CASE type(v) = "str" -> <<"\"">> \o v.str \o <<"\"">>
      [] type(v) = "num" -> v.num
      [] type(v) = "none" -> <<"null">>
      [] type(v) = "list" -> <<"[">> \o dumps_items(v.list) \o <<"]">>
      [] type(v) = "dict" -> <<"{">> \o dumps_pairs(v.dict) \o <<"}">>

Pair(k, v) == [k |-> <<k>>, v |-> v]
SpeakerValues == {Str(<<"a">>), Str(<<"b">>), PyNone, List(<<>>)}
ContentValues == {Str(<<"b">>)}
TurnObjects ==
    {Dict(<<>>)}
    \cup {Dict(<<Pair("speaker", sp)>>) : sp \in SpeakerValues}
    \cup {Dict(<<Pair("content", c)>>) : c \in ContentValues}
    \cup {Dict(<<Pair("speaker", sp), Pair("content", c)>>) :
            sp \in SpeakerValues, c \in ContentValues}
TurnValues == TurnObjects \cup {Str(<<"a">>), PyNone}
TurnSources ==
    {List(l) : l \in UNION {[1..n -> TurnValues] : n \in 0..MaxTurns}}
    \cup {Str(<<>>), Str(<<"a">>), PyNone, Num(<<"1">>), Dict(<<>>)}
SessionIdValues == {Str(<<"s1">>), PyNone}
Documents ==
    TurnSources
    \cup {Dict(<<Pair("turns", x)>>) : x \in TurnSources}
    \cup {Dict(<<Pair("conversation", x)>>) : x \in TurnSources}
    \cup {Dict(<<Pair("session_id", sid), Pair("turns", x)>>) :
            sid \in SessionIdValues, x \in TurnSources}
JsonTexts == {dumps(d) : d \in Documents}

JunkTokens ==
    {"User", "a", "1", "null", ":", "U+FF1A", " ", "\n", "[", "]", "(", ")",
     "{", "}", ",", "\"", Surrogate}
Junk == UNION {[1..n -> JunkTokens] : n \in 0..MaxJunk}

\* the transcript of scenario 1: kehu and kefu greet each other on two lines
\* with full-width colons
Scenario1 ==
    <<"kehu", "U+FF1A", "ninhao", "\n",
      "kefu", "U+FF1A", "ninhao", "U+FF0C", "qingwen", "U+FF1F">>

\* arrays one inside the other, up to one more than json.loads enters:
\* left open, left open before a colon, and closed
Opened(n) == [k \in 1..n |-> "["]
Nested ==
    UNION {{Opened(n), Opened(n) \o <<":">>, Opened(n) \o [k \in 1..n |-> "]"]} :
             n \in (RecursionLimit - 1)..(RecursionLimit + 1)}

RawContents == Texts(MaxTurns) \cup JsonTexts \cup Junk \cup {Scenario1} \cup Nested
\* the format hints: "json" and two that are not
FormatTypes == {"text", "json", "unknown"}

\* a parser, and a content waiting to be parsed
InitParse ==
    /\ Init!1 /\ Init!2 /\ Init!3 /\ Init!4 /\ Init!5 /\ Init!6 /\ Init!7 /\ Init!8
    /\ raw_content \in RawContents
    /\ conversation = NoConversation
    /\ llm = Returns(PyNone)
    /\ NoBatch
    /\ NoReports

NextParse ==
    \/ \E format_type \in FormatTypes : parse_conversation(format_type)
    \/ detect_format

SpecParse == InitParse /\ [][NextParse]_vars

---------------------------------------------------------------------------
(* Claims about ConversationParser.parse_conversation (SpecParse)          *)

\* something went wrong inside the branch taken for the hint: an exception
\* left it, the content was no JSON, or the JSON was neither list nor dict
BranchFailed(text, format_type) ==
    \/ \E o \in Branch(text, format_type) : o.raised
    \/ /\ format_type = "json"
       /\ \/ ~json_loads(text).ok
          \/ type(json_loads(text).v) \notin {"list", "dict"}

ParseError == Str(<<"parse_error">>)

\* C8: parse_conversation never raises, whatever the content and the format
\* hint; when the text branch or the JSON branch fails, it returns a
\* conversation with session_id "parse_error" and an "error" entry in its
\* metadata that says why.
C8_ParseNeverRaises ==
    last.op = "parse_conversation"
    => /\ ~last.raised
       /\ BranchFailed(raw_content, last.format_type)
          => /\ last.result.session_id = ParseError
             /\ "error" \in DOMAIN last.result.metadata
             /\ last.result.metadata.error # ""

\* an exception left a branch and came back as the parse_error conversation
C8_Witness ==
    /\ last.op = "parse_conversation"
    /\ \E o \in Branch(raw_content, last.format_type) : o.raised
    /\ conversation.session_id = ParseError

\* C10: the participants of a conversation parse_conversation returned are
\* exactly the distinct speakers of its turns, each of them once.
C10_ParticipantsAreSpeakers ==
    (last.op = "parse_conversation" /\ ~last.raised)
    => LET c == last.result
       IN /\ {c.participants[i] : i \in 1..Len(c.participants)}
               = {c.turns[i].speaker : i \in 1..Len(c.turns)}
          /\ \A i, j \in 1..Len(c.participants) :
               c.participants[i] = c.participants[j] => i = j

\* two turns of one speaker have come back with one participant
C10_Witness ==
    /\ last.op = "parse_conversation"
    /\ Len(conversation.turns) = 2
    /\ conversation.turns[1].speaker = conversation.turns[2].speaker
    /\ Len(conversation.participants) = 1

\* a line that reads <speaker> U+FF1A <utterance>
FullWidthLine(line) ==
    /\ Len(line) >= 3
    /\ IsWord(line[1])
    /\ line[2] = "U+FF1A"
    /\ \A i \in 3..Len(line) : line[i] \notin Colons \cup Whitespace
\* a transcript of such lines
FullWidthTranscript(text) ==
    \A i \in 1..Len(split(text, "\n")) : FullWidthLine(split(text, "\n")[i])
\* the turn a line stands for
LineTurn(line) ==
    DialogueTurn(Str(<<line[1]>>), Str(SubSeq(line, 3, Len(line))))

\* C11: parse_conversation with hint "text" on a transcript whose lines each
\* read <speaker> U+FF1A <utterance> returns one turn per line, in the order
\* of the lines, with the speaker and the utterance of the line, and metadata
\* format "text"; scenario 1 comes back as 2 turns of kehu and kefu with
\* these two as participants.
C11_OneTurnPerLine ==
    (/\ last.op = "parse_conversation"
     /\ last.format_type = "text"
     /\ FullWidthTranscript(raw_content))
    => LET lines == split(raw_content, "\n")
           c == last.result
       IN /\ c.turns = [i \in 1..Len(lines) |-> LineTurn(lines[i])]
          /\ {c.participants[i] : i \in 1..Len(c.participants)}
               = {Str(<<lines[i][1]>>) : i \in 1..Len(lines)}
          /\ c.metadata = [format |-> "text"]

---------------------------------------------------------------------------
(* AutoInspector._parse_inspection_response: the scores, the issues and    *)
(* the summary read from the response of the model.  The labels are        *)
(* transliterated: zongtipingfen, fuwutaidu, zhuanyexing, heguixing for    *)
(* the four scores, zongjie for the summary, wenti / buzu for a problem,   *)
(* yanzhong / qingwei for its weight.                                      *)

\* [U+FF1A:\s]
ScoreSeps == Colons \cup Whitespace

\* 0.0
ZeroScore == [whole |-> 0, frac |-> <<>>]

\* label[U+FF1A:\s]*(\d+\.?\d*) at i: group 1
ScoreMatch(s, label, i) ==
    LET k == Min({q \in i + 1..Len(s) + 1 : Tok(s, q) \notin ScoreSeps})
        e == DigitsEnd(s, k)
        f == IF Tok(s, e + 1) = "." THEN DigitsEnd(s, e + 2) ELSE e
    IN IF s[i] # label \/ Tok(s, k) \notin DecimalDigits THEN NoMatch
       ELSE [ok |-> TRUE, end |-> f + 1, groups |-> <<SubSeq(s, k, f)>>]

\* lines 373-387: re.search of the pattern of one label, and the score set
\* from its first match
score_of(response, label) ==
    LET hits == {i \in 1..Len(response) : ScoreMatch(response, label, i).ok}
    IN IF hits = {} THEN ZeroScore
       ELSE float(ScoreMatch(response, label, Min(hits)).groups[1])

\* re.split(r'\d+\.', s): scanning from i, the block in hand began at start
RECURSIVE resplit(_, _, _)
resplit(s, i, start) ==
    IF i > Len(s) THEN <<SubSeq(s, start, Len(s))>>
    ELSE IF s[i] \in DecimalDigits /\ Tok(s, DigitsEnd(s, i) + 1) = "."
    THEN <<SubSeq(s, start, i - 1)>>
         \o resplit(s, DigitsEnd(s, i) + 2, DigitsEnd(s, i) + 2)
    ELSE resplit(s, i + 1, start)

\* characters a token stands for
CharLen(c) ==
    CASE c \in {"zongtipingfen", "fuwutaidu"} -> 4
      [] c \in {"zhuanyexing", "heguixing"} -> 3
      [] c \in {"zongjie", "wenti", "buzu", "yanzhong", "qingwei"} -> 2
      [] OTHER -> 1
RECURSIVE CharCount(_)
CharCount(s) == IF s = <<>> THEN 0 ELSE CharLen(Head(s)) + CharCount(Tail(s))
\* block.strip()[:200]
MaxDescription == 200
\* s[:n], for a cut that falls between two tokens
RECURSIVE truncate(_, _)
truncate(s, n) ==
    IF CharCount(s) <= n THEN s ELSE truncate(SubSeq(s, 1, Len(s) - 1), n)

\* QualityIssue(issue_type, description, severity): location, suggestion and
\* evidence at their default
QualityIssue(issue_type, description, severity) ==
    [issue_type |-> issue_type, description |-> description, severity |-> severity,
     location |-> PyNone, suggestion |-> PyNone, evidence |-> PyNone]

\* lines 392-407: an issue for each block after the first that names a
\* problem
RECURSIVE issues_of(_)
issues_of(issue_blocks) ==
    IF issue_blocks = <<>> THEN <<>>
    ELSE LET block == Head(issue_blocks)
         IN (IF Contains(block, "wenti") \/ Contains(block, "buzu")
             THEN <<QualityIssue(
                      "fuwuwenti", truncate(strip(block), MaxDescription),
                      IF Contains(block, "yanzhong") THEN "HIGH"
                      ELSE IF Contains(block, "qingwei") THEN "LOW"
                      ELSE "MEDIUM")>>
             ELSE <<>>)
            \o issues_of(Tail(issue_blocks))

\* zongjie[U+FF1A:\s]*(.+?)$ under re.MULTILINE at i: where group 1 starts.
\* The group takes no newline; when the separators run to the end of the
\* text they give their last character that is no newline to the group.
SummaryStart(s, i) ==
    LET k == Min({q \in i + 1..Len(s) + 1 : Tok(s, q) \notin ScoreSeps})
        ps == {p \in i + 1..k : p <= Len(s) /\ s[p] # "\n"}
    IN IF s[i] # "zongjie" \/ ps = {} THEN 0
       ELSE CHOOSE p \in ps : \A q \in ps : q <= p
\* lines 410-413: the summary, '' without a match
summary_of(response) ==
    LET hits == {i \in 1..Len(response) : SummaryStart(response, i) > 0}
        p == SummaryStart(response, Min(hits))
        j == Min({q \in p + 1..Len(response) + 1 : Tok(response, q) \in {"\n", "EOF"}})
    IN IF hits = {} THEN <<>> ELSE strip(SubSeq(response, p, j - 1))

InspectionReport(session_id, overall_score, attitude_score, professionalism_score, compliance_score, issues, summary) ==
    [session_id |-> session_id, overall_score |-> overall_score,
     attitude_score |-> attitude_score,
     professionalism_score |-> professionalism_score,
     compliance_score |-> compliance_score, issues |-> issues,
     summary |-> summary]

\* _parse_inspection_response(response, session_id), response a str
parse_inspection_response(response, session_id) ==
    InspectionReport(session_id,
                     score_of(response, "zongtipingfen"),
                     score_of(response, "fuwutaidu"),
                     score_of(response, "zhuanyexing"),
                     score_of(response, "heguixing"),
                     issues_of(Tail(resplit(response, 1, 1))),
                     Str(summary_of(response)))

---------------------------------------------------------------------------
(* AutoInspector.inspect_conversation                                      *)

\* dict.items(): each key once, where it first came, with its last value
RECURSIVE items(_)
items(pairs) ==
    IF pairs = <<>> THEN <<>>
    ELSE <<[k |-> Head(pairs).k, v |-> get(pairs, Head(pairs).k, PyNone)]>>
         \o items(SelectSeq(Tail(pairs), LAMBDA q : q.k # Head(pairs).k))

\* the decimal digits of a natural number
RECURSIVE digits_of(_)
digits_of(n) ==
    IF n < 10 THEN <<ToString(n)>> ELSE digits_of(n \div 10) \o <<ToString(n % 10)>>
\* repr(x) of a float below 1e16: its digits, with a point
repr_float(x) ==
    digits_of(x.whole) \o <<".">> \o (IF x.frac = <<>> THEN <<"0">> ELSE x.frac)
\* the characters of a str as repr writes them between the quotes
RECURSIVE repr_chars(_)
repr_chars(chars) ==
    IF chars = <<>> THEN <<>>
    ELSE (CASE Head(chars) = "\n" -> <<"\\", "n">>
            [] Head(chars) = "\t" -> <<"\\", "t">>
            [] Head(chars) = "\\" -> <<"\\", "\\">>
            [] Head(chars) = Surrogate -> <<"\\", "ud800">>
            [] OTHER -> <<Head(chars)>>)
         \o repr_chars(Tail(chars))

\* repr(v)
RECURSIVE repr(_)
RECURSIVE repr_items(_)
RECURSIVE repr_pairs(_)
repr_items(elements) ==
    IF elements = <<>> THEN <<>>
    ELSE IF Len(elements) = 1 THEN repr(elements[1])
    ELSE repr(elements[1]) \o <<",", " ">> \o repr_items(Tail(elements))
repr_pairs(pairs) ==
    IF pairs = <<>> THEN <<>>
    ELSE <<"'">> \o pairs[1].k \o <<"'", ":", " ">> \o repr(pairs[1].v)
         \o (IF Len(pairs) = 1 THEN <<>>
             ELSE <<",", " ">> \o repr_pairs(Tail(pairs)))
repr(v) ==
    CASE type(v) = "str" -> <<"'">> \o repr_chars(v.str) \o <<"'">>
      [] type(v) = "num" -> v.num
      [] type(v) = "float" -> repr_float(v.float)
      [] type(v) = "none" -> <<"None">>
      [] type(v) = "list" -> <<"[">> \o repr_items(v.list) \o <<"]">>
      [] type(v) = "dict" -> <<"{">> \o repr_pairs(items(v.dict)) \o <<"}">>
\* f"{v}"
format(v) == IF type(v) = "str" THEN v.str ELSE repr(v)

\* _format_conversation(conversation): "\n".join of speaker: content
RECURSIVE format_turns(_)
format_turns(turns) ==
    IF turns = <<>> THEN <<>>
    ELSE format(turns[1].speaker) \o <<":", " ">> \o format(turns[1].content)
         \o (IF Len(turns) = 1 THEN <<>>
             ELSE <<"\n">> \o format_turns(Tail(turns)))

\* PromptTemplates.QUALITY_INSPECT.format(conversation=conversation_text)
QUALITY_INSPECT(conversation_text) ==
    <<"QUALITY_INSPECT[0]">> \o conversation_text \o <<"QUALITY_INSPECT[1]">>

\* lines 167-184, the try block; answer is what generate_text does when it
\* is called
inspect_try(c, answer) ==
    IF c = NoConversation
    THEN Raises("'NoneType' object has no attribute 'turns'")
    ELSE IF answer.raised THEN Raises(answer.exc)
    ELSE IF type(answer.value) # "str"
    THEN Raises("expected string or bytes-like object")
    ELSE Returns(parse_inspection_response(answer.value.str, c.session_id))

\* the prompt generate_text is called with, when it is called
prompt_of(c) ==
    IF c = NoConversation THEN <<>> ELSE QUALITY_INSPECT(format_turns(c.turns))

\* lines 188-191: the report of a failed inspection
failure_report(c, exc) ==
    InspectionReport(IF c # NoConversation THEN c.session_id ELSE Str(<<"unknown">>),
                     ZeroScore, ZeroScore, ZeroScore, ZeroScore, <<>>,
                     Str(<<"zhijianshibai", ":", " ", exc>>))

\* an inspector that calls generate_text again when the call has raised
calls_retried(c, answer) ==
    IF c = NoConversation THEN <<>>
    ELSE IF answer.raised THEN <<prompt_of(c), prompt_of(c)>>
    ELSE <<prompt_of(c)>>
\* line 176: the calls of generate_text one inspect_conversation makes, each
\* the prompt it passes; formatting None fails before the call
calls_of(c, answer) ==
    IF c = NoConversation THEN <<>> ELSE <<prompt_of(c)>>

\* inspect_conversation with the except clause of line 186 lost
inspect_conversation_uncaught ==
    /\ LET o == inspect_try(conversation, llm)
       IN last' = [op |-> "inspect_conversation",
                   prompt |-> prompt_of(conversation),
                   calls |-> calls_of(conversation, llm),
                   raised |-> o.raised, exc |-> o.exc, result |-> o.value]
    /\ UNCHANGED <<wfVars, thVars, pipeVars>>

\* inspect_conversation(conversation)
inspect_conversation ==
    /\ LET o == inspect_try(conversation, llm)
       IN last' = [op |-> "inspect_conversation",
                   prompt |-> prompt_of(conversation),
                   calls |-> calls_of(conversation, llm),
                   raised |-> FALSE, exc |-> "",
                   result |-> IF o.raised THEN failure_report(conversation, o.exc)
                              ELSE o.value]
    /\ UNCHANGED <<wfVars, thVars, pipeVars>>

---------------------------------------------------------------------------
(* The inspector at work (SpecInspect): a content is parsed, the           *)
(* conversation is inspected, and generate_text answers as llm says: with  *)
(* a response, with None, or with an exception.                            *)

\* lines of a response
MaxLines == 2

ScoreLabels == {"zongtipingfen", "fuwutaidu", "zhuanyexing", "heguixing"}
ResponseLines ==
    {<<l, "U+FF1A", "8", "5">> : l \in ScoreLabels}
    \cup {<<"zongtipingfen", "U+FF1A", "1", "5", "0">>}
    \cup {<<"1", ".", "wenti">>, <<"2", ".", "buzu", "yanzhong">>,
          <<"zongjie", "U+FF1A", "a">>, <<"a">>, <<"zongjie", "U+FF1A">>}
\* "zongtipingfen:85\nfuwutaidu:90\nzongjie:biaoxian lianghao", the colons
\* full-width
Scenario2 ==
    <<"zongtipingfen", "U+FF1A", "8", "5", "\n", "fuwutaidu", "U+FF1A", "9", "0", "\n",
      "zongjie", "U+FF1A", "biaoxian lianghao">>
RECURSIVE ResponseTexts(_)
ResponseTexts(n) ==
    IF n = 0 THEN {<<>>}
    ELSE ResponseTexts(n - 1)
         \cup {t \o <<"\n">> \o l : t \in ResponseTexts(n - 1) \ {<<>>}, l \in ResponseLines}
         \cup ResponseLines
ResponseTokens ==
    {"zongtipingfen", "zongjie", ":", "\n", "8", ".", "wenti", "yanzhong"}
Responses ==
    ResponseTexts(MaxLines) \cup UNION {[1..n -> ResponseTokens] : n \in 0..MaxJunk}
    \cup {Scenario2}
\* what str(e) gives for the exceptions generate_text raises
LLMErrors == {"LLM_CONNECTION_ERROR", "LLM_RATE_LIMIT_ERROR"}
LLMOutcomes ==
    {Raises(m) : m \in LLMErrors} \cup {Returns(PyNone)}
    \cup {Returns(Str(r)) : r \in Responses}

InspectContents ==
    Texts(1)
    \cup {dumps(Dict(<<Pair("session_id", Str(<<"s1">>)), Pair("turns", List(<<t>>))>>)) :
            t \in TurnObjects}

InitInspect ==
    /\ Init!1 /\ Init!2 /\ Init!3 /\ Init!4 /\ Init!5 /\ Init!6 /\ Init!7 /\ Init!8
    /\ raw_content \in InspectContents
    /\ conversation = NoConversation
    /\ llm \in LLMOutcomes
    /\ NoBatch
    /\ NoReports

NextInspect ==
    \/ \E format_type \in FormatTypes : parse_conversation(format_type)
    \/ inspect_conversation

SpecInspect == InitInspect /\ [][NextInspect]_vars

\* C9: inspect_conversation never raises; when formatting the conversation,
\* the generate_text call or the parsing of the response fails, it returns a
\* report with the session_id of the conversation, the four scores at 0, no
\* issue, and a summary that holds the message of the failure.
C9_InspectNeverRaises ==
    last.op = "inspect_conversation"
    => /\ ~last.raised
       /\ inspect_try(conversation, llm).raised
          => /\ conversation # NoConversation
                => last.result.session_id = conversation.session_id
             /\ last.result.overall_score = ZeroScore
             /\ last.result.attitude_score = ZeroScore
             /\ last.result.professionalism_score = ZeroScore
             /\ last.result.compliance_score = ZeroScore
             /\ last.result.issues = <<>>
             /\ Contains(last.result.summary.str,
                         inspect_try(conversation, llm).exc)

\* generate_text has raised for a conversation that has turns, and the
\* report of the failure has come back
C9_Witness ==
    /\ last.op = "inspect_conversation"
    /\ llm.raised
    /\ conversation # NoConversation
    /\ conversation.turns # <<>>
    /\ last.result.session_id = conversation.session_id
    /\ last.result.overall_score = ZeroScore

\* a score from 0 to 100: a [whole, frac] number, never None
InRange(score) ==
    /\ DOMAIN score = {"whole", "frac"}
    /\ score.whole \in 0..100
    /\ score.whole = 100 => score.frac = <<>>

\* C13: whatever text generate_text returns, each of the four scores of the
\* report inspect_conversation returns is a number from 0 to 100, and none
\* of them is None or missing.
C13_ScoresInRange ==
    last.op = "inspect_conversation"
    => /\ InRange(last.result.overall_score)
       /\ InRange(last.result.attitude_score)
       /\ InRange(last.result.professionalism_score)
       /\ InRange(last.result.compliance_score)

---------------------------------------------------------------------------
(* AutoInspector.batch_inspect (SpecBatch): a list of conversations is     *)
(* handed over, and generate_text answers its successive calls as answers  *)
(* says.                                                                   *)

\* inspect_conversation(c) as batch_inspect calls it: the report it returns
inspect(c, answer) ==
    LET o == inspect_try(c, answer)
    IN IF o.raised THEN failure_report(c, o.exc) ELSE o.value

\* a loop that ends at the first conversation whose inspection fails
RECURSIVE batch_loop_aborted(_, _)
batch_loop_aborted(cs, script) ==
    IF cs = <<>> \/ inspect_try(Head(cs), Head(script)).raised
    THEN [reports |-> <<>>, calls |-> <<>>]
    ELSE LET rest == batch_loop_aborted(Tail(cs), Tail(script))
         IN [reports |-> <<inspect(Head(cs), Head(script))>> \o rest.reports,
             calls |-> calls_of(Head(cs), Head(script)) \o rest.calls]

\* lines 338-342: the loop over the conversations; script is what
\* generate_text does at the calls that are still to come
RECURSIVE batch_loop(_, _)
batch_loop(cs, script) ==
    IF cs = <<>> THEN [reports |-> <<>>, calls |-> <<>>]
    ELSE LET made == calls_of(Head(cs), Head(script))
             rest == batch_loop(Tail(cs),
                                IF made = <<>> THEN script ELSE Tail(script))
         IN [reports |-> <<inspect(Head(cs), Head(script))>> \o rest.reports,
             calls |-> made \o rest.calls]

\* batch_inspect(conversations)
batch_inspect ==
    /\ last' = [op |-> "batch_inspect",
                calls |-> batch_loop(conversations, answers).calls,
                raised |-> FALSE, exc |-> "",
                result |-> batch_loop(conversations, answers).reports]
    /\ UNCHANGED <<wfVars, thVars, pipeVars>>

\* conversations of a batch
MaxBatch == 2

\* the conversations parse_conversation returns for three transcripts
BatchContents == {<<"User", ":", "b">>, <<"a", ":", "b", "\n", "b">>, Scenario1}
BatchConversations ==
    {o.value : o \in UNION {Branch(t, "text") : t \in BatchContents}}
\* generate_text raises, returns None, or returns a text of one line
BatchOutcomes ==
    {Raises(m) : m \in LLMErrors} \cup {Returns(PyNone)}
    \cup {Returns(Str(r)) : r \in ResponseTexts(1)}

\* a batch is waiting, or one conversation is
InitBatch ==
    /\ Init!1 /\ Init!2 /\ Init!3 /\ Init!4 /\ Init!5 /\ Init!6 /\ Init!7 /\ Init!8
    /\ raw_content = <<>>
    /\ \/ /\ conversation = NoConversation
          /\ llm = Returns(PyNone)
          /\ \E n \in 0..MaxBatch :
               /\ conversations \in [1..n -> BatchConversations]
               /\ answers \in [1..n -> BatchOutcomes]
       \/ /\ conversation \in BatchConversations
          /\ llm \in BatchOutcomes
          /\ NoBatch
    /\ NoReports

NextBatch == batch_inspect \/ inspect_conversation

SpecBatch == InitBatch /\ [][NextBatch]_vars

C14_BatchIsAligned ==
    last.op = "batch_inspect"
    => /\ ~last.raised
       /\ Len(last.result) = Len(conversations)
       /\ \A i \in 1..Len(conversations) :
            LET c == conversations[i]
                o == inspect_try(c, answers[i])
                r == last.result[i]
            IN /\ r.session_id = c.session_id
               /\ o.raised
                  => /\ r.overall_score = ZeroScore
                     /\ r.attitude_score = ZeroScore
                     /\ r.professionalism_score = ZeroScore
                     /\ r.compliance_score = ZeroScore
                     /\ r.issues = <<>>
                     /\ Contains(r.summary.str, o.exc)
               /\ ~o.raised
                  => r = parse_inspection_response(answers[i].value.str,
                                                   c.session_id)

\* the first inspection of a batch has failed and the second has scored
C14_Witness ==
    /\ last.op = "batch_inspect"
    /\ Len(conversations) = 2
    /\ inspect_try(conversations[1], answers[1]).raised
    /\ Len(last.result) = 2
    /\ last.result[1].overall_score = ZeroScore
    /\ last.result[2].overall_score # ZeroScore
    /\ last.result[1].session_id # last.result[2].session_id

---------------------------------------------------------------------------
(* ReportGenerator.generate_summary_report                                 *)

\* digits a score carries after the point
MaxFrac == 1
RECURSIVE Pow10(_)
Pow10(n) == IF n = 0 THEN 1 ELSE 10 * Pow10(n - 1)
\* a score as a whole number of 10^-MaxFrac
scaled(score) ==
    score.whole * Pow10(MaxFrac)
    + int(score.frac) * Pow10(MaxFrac - Len(score.frac))
\* score >= n
ge(score, n) == score.whole >= n

RECURSIVE GCD(_, _)
GCD(a, b) == IF b = 0 THEN a ELSE GCD(b, a % b)
\* the quotient num / den of a division, in lowest terms
Quotient(num, den) ==
    [num |-> num \div GCD(num, den), den |-> den \div GCD(num, den)]
\* 0.0
Zero == [num |-> 0, den |-> 1]

\* sum(r.<field> for r in results), scaled
RECURSIVE sum(_, _)
sum(rs, field) ==
    IF rs = <<>> THEN 0 ELSE scaled(Head(rs)[field]) + sum(Tail(rs), field)
\* sum(r.<field> for r in results) / len(results)
mean(rs, field) == Quotient(sum(rs, field), Len(rs) * Pow10(MaxFrac))

\* lines 117-132: the four buckets and the reports counted into them
Buckets == {"youxiu(90-100)", "lianghao(80-89)", "hege(60-79)", "buhege(<60)"}
bucket_of(score) ==
    IF ge(score, 90) THEN "youxiu(90-100)"
    ELSE IF ge(score, 80) THEN "lianghao(80-89)"
    ELSE IF ge(score, 60) THEN "hege(60-79)"
    ELSE "buhege(<60)"
score_distribution_of(rs) ==
    [b \in Buckets |->
        Cardinality({k \in 1..Len(rs) : bucket_of(rs[k].overall_score) = b})]

\* lines 135-141: issue_stats, the types in the order they first come, each
\* with the number of the issues of its type
RECURSIVE all_issue_types(_)
all_issue_types(rs) ==
    IF rs = <<>> THEN <<>>
    ELSE [k \in 1..Len(Head(rs).issues) |-> Head(rs).issues[k].issue_type]
         \o all_issue_types(Tail(rs))
RECURSIVE first_seen(_)
first_seen(types) ==
    IF types = <<>> THEN <<>>
    ELSE <<Head(types)>>
         \o first_seen(SelectSeq(Tail(types), LAMBDA t : t # Head(types)))
issue_stats_of(rs) ==
    LET types == all_issue_types(rs)
        keys == first_seen(types)
    IN [k \in 1..Len(keys) |->
          [type |-> keys[k],
           count |-> Cardinality({j \in 1..Len(types) : types[j] = keys[k]})]]

\* a sort that puts the later of two equal counts first
RECURSIVE insert_ties_reversed(_, _)
insert_ties_reversed(sorted, x) ==
    IF sorted = <<>> THEN <<x>>
    ELSE IF Head(sorted).count > x.count
    THEN <<Head(sorted)>> \o insert_ties_reversed(Tail(sorted), x)
    ELSE <<x>> \o sorted
\* sorted(items, key=lambda x: -x[1]): the larger count first, equal counts
\* in the order they had
RECURSIVE insert(_, _)
insert(sorted, x) ==
    IF sorted = <<>> THEN <<x>>
    ELSE IF Head(sorted).count >= x.count
    THEN <<Head(sorted)>> \o insert(Tail(sorted), x)
    ELSE <<x>> \o sorted
RECURSIVE sorted_by_count(_)
sorted_by_count(its) ==
    IF its = <<>> THEN <<>>
    ELSE insert(sorted_by_count(SubSeq(its, 1, Len(its) - 1)), its[Len(its)])
\* [:5]
TopIssues == 5
top_issues_of(rs) ==
    LET all == sorted_by_count(issue_stats_of(rs))
    IN SubSeq(all, 1, IF Len(all) < TopIssues THEN Len(all) ELSE TopIssues)

\* _generate_recommendations(results): mean < 80 is sum < 80 * len
below80(rs, field) == sum(rs, field) < 80 * Len(rs) * Pow10(MaxFrac)
generate_recommendations(rs) ==
    LET recommendations ==
          (IF below80(rs, "attitude_score") THEN <<"jiaqiang fuwutaidu peixun">> ELSE <<>>)
          \o (IF below80(rs, "professionalism_score") THEN <<"jiaqiang chanpinzhishi peixun">> ELSE <<>>)
          \o (IF below80(rs, "compliance_score") THEN <<"qianghua heguiyishi peixun">> ELSE <<>>)
    IN IF recommendations = <<>>
       THEN <<"jixu baochi lianghao de fuwuzhiliang", "dingqi jinxing zhijian">>
       ELSE recommendations

SummaryReport(report_period, total_sessions, avg_score, score_distribution, top_issues, recommendations) ==
    [report_period |-> report_period, total_sessions |-> total_sessions,
     avg_score |-> avg_score, score_distribution |-> score_distribution,
     top_issues |-> top_issues, recommendations |-> recommendations]
\* SummaryReport(): every field at its default
EmptySummary == SummaryReport(PyNone, 0, Zero, <<>>, <<>>, <<>>)

\* lines 113-155: the summary of a list that is not empty
summarize(rs) ==
    SummaryReport(Str(<<"zuijin7tian">>), Len(rs), mean(rs, "overall_score"),
                  score_distribution_of(rs), top_issues_of(rs),
                  generate_recommendations(rs))

\* _build_summary_report(summary): the text, told by the values it prints
build_summary_report(summary) == [text |-> "zhijian huizong baogao", of |-> summary]

\* _save_report(path, content): open(path, 'w') and f.write(content) on a
\* disk that takes the file, refuses to open it, or fails while writing it
DiskStates == {"ok", "open fails", "write fails"}
save_error ==
    CASE disk = "ok" -> ""
      [] disk = "open fails" -> "PermissionError: [Errno 13] Permission denied"
      [] disk = "write fails" -> "OSError: [Errno 28] No space left on device"
save_report(path, content) ==
    CASE disk = "ok" -> (path :> content) @@ files
      [] disk = "open fails" -> files
      [] disk = "write fails" -> (path :> <<>>) @@ files

\* generate_summary_report(results)
generate_summary_report ==
    /\ last' = [op |-> "generate_summary_report", raised |-> FALSE, exc |-> "",
                result |-> IF results = <<>> \/ save_error # ""
                           THEN EmptySummary
                           ELSE summarize(results)]
    /\ files' = IF results = <<>> THEN files
                ELSE save_report(<<"summary_report.txt">>,
                                 build_summary_report(summarize(results)))
    /\ UNCHANGED <<wfVars, thVars, raw_content, conversation, llm, batchVars,
                   results, disk>>

\* the disk fills up, the directory loses or regains its write permission
disk_changes ==
    /\ disk' \in DiskStates \ {disk}
    /\ UNCHANGED <<wfVars, thVars, last, raw_content, conversation, llm,
                   batchVars, results, files>>

---------------------------------------------------------------------------
(* The report generator at work (SpecSummary): a list of reports waits to  *)
(* be summarised, on a disk that may change.                               *)

\* reports of a list
MaxResults == 2

Score(whole, frac) == [whole |-> whole, frac |-> frac]
\* the scores of scenario 3, and scores at and just under the bucket limits
OverallScores ==
    {Score(95, <<>>), Score(82, <<>>), Score(65, <<>>), Score(40, <<>>),
     Score(90, <<>>), Score(89, <<"5">>), Score(80, <<>>), Score(60, <<>>),
     Score(59, <<"5">>)}
IssueLists ==
    {<<>>,
     <<QualityIssue("fuwuwenti", <<"wenti">>, "MEDIUM")>>,
     <<QualityIssue("heguiwenti", <<"buzu">>, "HIGH"),
       QualityIssue("fuwuwenti", <<"wenti">>, "MEDIUM"),
       QualityIssue("fuwuwenti", <<"wenti">>, "LOW")>>}
\* issues of six types, two of them found twice
ManyIssues ==
    [k \in 1..8 |->
        QualityIssue(<<"fuwuwenti", "heguiwenti", "taiduwenti", "heguiwenti",
                       "zhuanyewenti", "taiduwenti", "liuchengwenti",
                       "xiaolvwenti">>[k],
                     <<"wenti">>, "MEDIUM")]
ReportValues ==
    {InspectionReport(Str(<<"s1">>), o, ZeroScore, ZeroScore, ZeroScore, <<>>,
                      Str(<<>>)) : o \in OverallScores}
    \cup {InspectionReport(Str(<<"s1">>), Score(82, <<>>), a, a, c, is, Str(<<"a">>)) :
            a \in {ZeroScore, Score(85, <<>>)}, c \in {ZeroScore, Score(85, <<>>)},
            is \in IssueLists}
    \cup {InspectionReport(Str(<<"s1">>), Score(82, <<>>), ZeroScore, ZeroScore,
                          ZeroScore, ManyIssues, Str(<<>>))}
\* the reports of scenario 3
Scenario3 ==
    [k \in 1..4 |->
        InspectionReport(Str(<<"s1">>),
                         Score(<<95, 82, 65, 40>>[k], <<>>),
                         ZeroScore, ZeroScore, ZeroScore, <<>>, Str(<<>>))]
ResultLists ==
    UNION {[1..n -> ReportValues] : n \in 0..MaxResults} \cup {Scenario3}

InitSummary ==
    /\ Init!1 /\ Init!2 /\ Init!3 /\ Init!4 /\ Init!5 /\ Init!6 /\ Init!7 /\ Init!8
    /\ raw_content = <<>>
    /\ conversation = NoConversation
    /\ llm = Returns(PyNone)
    /\ NoBatch
    /\ results \in ResultLists
    /\ disk \in DiskStates
    /\ files = <<>>

NextSummary == generate_summary_report \/ disk_changes

SpecSummary == InitSummary /\ [][NextSummary]_vars

\* C15: whatever the write of the summary file does, generate_summary_report
\* on a list of N >= 1 reports returns total_sessions N and avg_score the sum
\* of the overall scores divided by N; on the empty list it returns
\* total_sessions 0 and avg_score 0, and it does not raise.
C15_MeanOfOverall ==
    last.op = "generate_summary_report"
    => /\ ~last.raised
       /\ last.result.total_sessions = Len(results)
       /\ last.result.avg_score
            = IF results = <<>> THEN Zero ELSE mean(results, "overall_score")

\* the reports of a list whose overall score s has lo <= s < hi
Within(rs, lo, hi) ==
    Cardinality({k \in 1..Len(rs) :
                   /\ lo * Pow10(MaxFrac) <= scaled(rs[k].overall_score)
                   /\ scaled(rs[k].overall_score) < hi * Pow10(MaxFrac)})
\* the reports of a list whose overall score s has lo <= s
AtLeast(rs, lo) ==
    Cardinality({k \in 1..Len(rs) :
                   lo * Pow10(MaxFrac) <= scaled(rs[k].overall_score)})

\* C16: the score_distribution of the summary generate_summary_report returns
\* always has the four buckets; each report is counted in the one bucket of
\* its overall score s (s >= 90, 80 <= s < 90, 60 <= s < 80, s < 60), so the
\* four counts add up to total_sessions; the overall scores 95, 82, 65, 40
\* give one report in each bucket and avg_score 70.5.
C16_FourBuckets ==
    last.op = "generate_summary_report"
    => LET d == last.result.score_distribution
       IN /\ DOMAIN d = Buckets
          /\ d["youxiu(90-100)"] = AtLeast(results, 90)
          /\ d["lianghao(80-89)"] = Within(results, 80, 90)
          /\ d["hege(60-79)"] = Within(results, 60, 80)
          /\ d["buhege(<60)"] = Within(results, 0, 60)
          /\ d["youxiu(90-100)"] + d["lianghao(80-89)"] + d["hege(60-79)"]
             + d["buhege(<60)"] = last.result.total_sessions
          /\ results = Scenario3
             => /\ \A b \in Buckets : d[b] = 1
                /\ last.result.avg_score = [num |-> 141, den |-> 2]

\* the fields of a summary that a second call has to give again
Fields(summary) ==
    <<summary.total_sessions, summary.avg_score, summary.score_distribution,
      summary.top_issues, summary.recommendations>>

\* C17: two calls of generate_summary_report with the same list of reports
\* return summaries with the same total_sessions, avg_score,
\* score_distribution, top_issues and recommendations.
C17_SameSummaryAgain ==
    [][(/\ last.op = "generate_summary_report"
        /\ last'.op = "generate_summary_report"
        /\ results' = results)
       => Fields(last'.result) = Fields(last.result)]_vars

---------------------------------------------------------------------------
(* ReportGenerator.export_report                                           *)

\* QualityIssue.to_dict() and InspectionReport.to_dict(); the two times are
\* isoformat() strings
issue_to_dict(issue) ==
    Dict(<<Pair("issue_type", Str(<<issue.issue_type>>)),
           Pair("description", Str(issue.description)),
           Pair("severity", Str(<<issue.severity>>)),
           Pair("location", issue.location),
           Pair("suggestion", issue.suggestion),
           Pair("evidence", issue.evidence),
           Pair("detected_at", Str(<<"isoformat">>))>>)
to_dict(report) ==
    Dict(<<Pair("session_id", report.session_id),
           Pair("overall_score", Float(report.overall_score)),
           Pair("attitude_score", Float(report.attitude_score)),
           Pair("professionalism_score", Float(report.professionalism_score)),
           Pair("compliance_score", Float(report.compliance_score)),
           Pair("issues", List([k \in 1..Len(report.issues) |->
                                  issue_to_dict(report.issues[k])])),
           Pair("summary", report.summary),
           Pair("generated_at", Str(<<"isoformat">>))>>)

\* json.dumps(v, ensure_ascii=False, indent=2)
JsonIndent == 2
\* the characters of a str as JSON writes them between the quotes
RECURSIVE json_chars(_)
json_chars(chars) ==
    IF chars = <<>> THEN <<>>
    ELSE (CASE Head(chars) = "\n" -> <<"\\", "n">>
            [] Head(chars) = "\t" -> <<"\\", "t">>
            [] Head(chars) = "\\" -> <<"\\", "\\">>
            [] Head(chars) = "\"" -> <<"\\", "\"">>
            [] OTHER -> <<Head(chars)>>)
         \o json_chars(Tail(chars))
newline_indent(level) == <<"\n">> \o [k \in 1..JsonIndent * level |-> " "]
RECURSIVE dumps_indented(_, _)
RECURSIVE dumps_indented_items(_, _)
RECURSIVE dumps_indented_pairs(_, _)
dumps_indented_items(elements, level) ==
    newline_indent(level) \o dumps_indented(Head(elements), level)
    \o (IF Len(elements) = 1 THEN <<>>
        ELSE <<",">> \o dumps_indented_items(Tail(elements), level))
dumps_indented_pairs(pairs, level) ==
    newline_indent(level) \o <<"\"">> \o json_chars(Head(pairs).k) \o <<"\"", ":", " ">>
    \o dumps_indented(Head(pairs).v, level)
    \o (IF Len(pairs) = 1 THEN <<>>
        ELSE <<",">> \o dumps_indented_pairs(Tail(pairs), level))
dumps_indented(v, level) ==
    CASE type(v) = "str" -> <<"\"">> \o json_chars(v.str) \o <<"\"">>
      [] type(v) = "num" -> v.num
      [] type(v) = "float" -> repr_float(v.float)
      [] type(v) = "none" -> <<"null">>
      [] type(v) = "list" ->
           IF v.list = <<>> THEN <<"[", "]">>
           ELSE <<"[">> \o dumps_indented_items(v.list, level + 1)
                \o newline_indent(level) \o <<"]">>
      [] type(v) = "dict" ->
           IF v.dict = <<>> THEN <<"{", "}">>
           ELSE <<"{">> \o dumps_indented_pairs(items(v.dict), level + 1)
                \o newline_indent(level) \o <<"}">>

\* bytes, and text.encode(): UTF-8 has no encoding for a lone surrogate
Bytes(v) == [bytes |-> v]
encode(text) ==
    IF Contains(text, Surrogate)
    THEN Raises("UnicodeEncodeError: surrogates not allowed")
    ELSE Returns(Bytes(text))

\* f"{x:.1f}" of a score with at most one digit after the point
fmt1(x) ==
    digits_of(x.whole) \o <<".">> \o (IF x.frac = <<>> THEN <<"0">> ELSE <<x.frac[1]>>)
\* f"{v or default}"
format_or(v, default) == IF Falsy(v) THEN <<default>> ELSE format(v)

\* _build_detailed_report(inspection_result): the values the text prints and,
\* one token each, the pieces of the template between them (rules, headings
\* and labels)
RECURSIVE detailed_issues(_, _)
detailed_issues(issues, k) ==
    IF k > Len(issues) THEN <<>>
    ELSE <<"\n wenti">> \o digits_of(k)
         \o <<": [", issues[k].severity, "] ", issues[k].issue_type>>
         \o <<"\n miaoshu: ">> \o issues[k].description
         \o <<"\n weizhi: ">> \o format_or(issues[k].location, "weizhiding")
         \o <<"\n jianyi: ">> \o format_or(issues[k].suggestion, "wu")
         \o <<"\n">> \o detailed_issues(issues, k + 1)
build_detailed_report(report) ==
    <<"[kefu duihua zhijian baogao] huihua ID: ">> \o format(report.session_id)
    \o <<"\n shengcheng shijian: ", "strftime">>
    \o <<"[zongti pingfen] zongtipingfen: ">> \o fmt1(report.overall_score)
    \o <<"fen\n fuwutaidu: ">> \o fmt1(report.attitude_score)
    \o <<"fen\n zhuanyexing: ">> \o fmt1(report.professionalism_score)
    \o <<"fen\n heguixing: ">> \o fmt1(report.compliance_score)
    \o <<"fen [faxian wenti]">> \o detailed_issues(report.issues, 1)
    \o <<"[zongjie]">> \o format_or(report.summary, "wu")
    \o <<"[baogao jieshu]">>

\* InspectionReport.to_html()
RECURSIVE issues_html(_)
issues_html(issues) ==
    IF issues = <<>> THEN <<>>
    ELSE <<"<div class=issue", Head(issues).severity, ">", "<strong>",
           Head(issues).issue_type, "</strong>", "(", Head(issues).severity, ")", "<p>">>
         \o Head(issues).description
         \o <<"</p>", "<p><em>", "jianyi">> \o format(Head(issues).suggestion)
         \o <<"</em></p>", "</div>">>
         \o issues_html(Tail(issues))
to_html(report) ==
    <<"<!DOCTYPE html>", "<title>">> \o format(report.session_id)
    \o <<"</title>", "<h1>", "huihua ID">> \o format(report.session_id)
    \o <<"<span class=score", IF ge(report.overall_score, 60) THEN "pass" ELSE "fail", ">">>
    \o fmt1(report.overall_score)
    \o <<"<li>">> \o fmt1(report.attitude_score)
    \o <<"<li>">> \o fmt1(report.professionalism_score)
    \o <<"<li>">> \o fmt1(report.compliance_score)
    \o <<"<h2>">> \o issues_html(report.issues)
    \o <<"<h2>", "<p>">> \o format(report.summary) \o <<"</p>", "</html>">>

\* generate_detailed_report(inspection_result): the text it returns, the
\* str of the dict when the file could not be written
report_path(report) == <<"report_">> \o format(report.session_id) \o <<".txt">>
\* the file is opened with encoding='utf-8': a text that cannot be encoded
\* fails at f.write, as a full disk does
detailed_saved(report) ==
    IF disk = "ok" /\ encode(build_detailed_report(report)).raised
    THEN (report_path(report) :> <<>>) @@ files
    ELSE save_report(report_path(report), build_detailed_report(report))
generate_detailed_report(report) ==
    IF save_error = "" /\ ~encode(build_detailed_report(report)).raised
    THEN build_detailed_report(report)
    ELSE repr(to_dict(report))

\* lines 186-198: the try block of export_report
FormatsKnown == {"json", "html", "text"}
export_try(report, format_type) ==
    CASE format_type = "json" -> encode(dumps_indented(to_dict(report), 0))
      [] format_type = "html" -> encode(to_html(report))
      [] format_type = "text" -> encode(generate_detailed_report(report))
      [] OTHER -> Raises("ValueError: buzhichi de geshi")

\* export_report(report, format_type), report the k-th of results
export_report(k, format_type) ==
    /\ k \in 1..Len(results)
    /\ LET o == export_try(results[k], format_type)
       IN last' = [op |-> "export_report", format_type |-> format_type,
                   report |-> results[k],
                   raised |-> FALSE, exc |-> "",
                   result |-> IF o.raised THEN Bytes(<<>>) ELSE o.value]
    /\ files' = IF format_type = "text" THEN detailed_saved(results[k]) ELSE files
    /\ UNCHANGED <<wfVars, thVars, raw_content, conversation, llm, batchVars,
                   results, disk>>

---------------------------------------------------------------------------
(* Reports on their way out (SpecExport): one report waits to be exported, *)
(* on a disk that may change.                                              *)

\* characters of a description
MaxChars == 2

\* what a description is made of: a word, the characters JSON escapes, a
\* full-width colon, a lone surrogate
DescriptionChars == {"wenti", "\"", "\\", "\n", "U+FF1A", Surrogate}
Descriptions == UNION {[1..n -> DescriptionChars] : n \in 0..MaxChars}
Located(issue) ==
    [issue EXCEPT !.location = Str(<<"a">>), !.suggestion = Str(<<"\"", "b">>),
                  !.evidence = Str(<<"b">>)]
ExportIssues ==
    {QualityIssue("fuwuwenti", d, "MEDIUM") : d \in Descriptions}
    \cup {Located(QualityIssue("heguiwenti", <<"buzu">>, "HIGH"))}
ExportIssueLists ==
    {<<>>} \cup {<<i>> : i \in ExportIssues}
    \cup {<<Located(QualityIssue("heguiwenti", <<"buzu">>, "HIGH")),
            QualityIssue("fuwuwenti", <<c>>, "LOW")>> : c \in DescriptionChars}
ExportScores ==
    {<<Score(85, <<>>), ZeroScore>>, <<Score(89, <<"5">>), Score(85, <<>>)>>,
     <<Score(150, <<>>), Score(100, <<>>)>>}
ExportReports ==
    {InspectionReport(Str(<<"s1">>), sc[1], sc[2], sc[2], sc[1], is, sm) :
        sc \in ExportScores, is \in ExportIssueLists, sm \in {PyNone, Str(<<"a">>)}}
\* the formats asked for: the three export_report knows and two it does not
ExportFormats == FormatsKnown \cup {"xml", ""}

InitExport ==
    /\ Init!1 /\ Init!2 /\ Init!3 /\ Init!4 /\ Init!5 /\ Init!6 /\ Init!7 /\ Init!8
    /\ raw_content = <<>>
    /\ conversation = NoConversation
    /\ llm = Returns(PyNone)
    /\ NoBatch
    /\ \E r \in ExportReports : results = <<r>>
    /\ disk \in DiskStates
    /\ files = <<>>

NextExport ==
    \/ \E k \in 1..Len(results), format_type \in ExportFormats :
         export_report(k, format_type)
    \/ disk_changes

SpecExport == InitExport /\ [][NextExport]_vars

\* the value of a key of a dict that json.loads returned
Loaded(d, key) == get(d.dict, <<key>>, [missing |-> key])

\* C18: export_report with format "json", and json.loads of the bytes it
\* returns, give back the four scores of the report and, issue by issue in
\* the order of the report, the issue_type, description, severity, location,
\* suggestion and evidence of the issue.
C18_JsonRoundTrip ==
    (last.op = "export_report" /\ last.format_type = "json")
    => LET r == last.report
           parsed == json_loads(last.result.bytes)
           d == parsed.v
       IN /\ parsed.ok
          /\ type(d) = "dict"
          /\ Loaded(d, "overall_score") = Float(r.overall_score)
          /\ Loaded(d, "attitude_score") = Float(r.attitude_score)
          /\ Loaded(d, "professionalism_score") = Float(r.professionalism_score)
          /\ Loaded(d, "compliance_score") = Float(r.compliance_score)
          /\ type(Loaded(d, "issues")) = "list"
          /\ Len(Loaded(d, "issues").list) = Len(r.issues)
          /\ \A k \in 1..Len(r.issues) :
               LET i == Loaded(d, "issues").list[k]
               IN /\ Loaded(i, "issue_type") = Str(<<r.issues[k].issue_type>>)
                  /\ Loaded(i, "description") = Str(r.issues[k].description)
                  /\ Loaded(i, "severity") = Str(<<r.issues[k].severity>>)
                  /\ Loaded(i, "location") = r.issues[k].location
                  /\ Loaded(i, "suggestion") = r.issues[k].suggestion
                  /\ Loaded(i, "evidence") = r.issues[k].evidence

\* C19: export_report with a format that is none of json, html and text
\* reports an error to its caller: it raises, and returns neither the report
\* in some default format nor anything else a caller could take for an
\* export.
C19_UnknownFormatIsAnError ==
    (last.op = "export_report" /\ last.format_type \notin FormatsKnown)
    => last.raised

---------------------------------------------------------------------------
(* Claims about ConversationParser.detect_format (SpecParse)               *)

\* the content, trimmed, starts with { or [ and is one JSON value
ValidJson(content) ==
    /\ Tok(strip(content), 1) \in {"{", "["}
    /\ json_loads(strip(content)).ok
HasColon(content) == \E c \in Colons : Contains(content, c)

\* C20: detect_format returns "json" exactly when the trimmed content starts
\* with { or [ and parses as JSON; otherwise "text" exactly when the content
\* holds an ASCII or a full-width colon; otherwise "unknown". So an empty
\* content and one of whitespace only give "unknown", and the format hint of
\* the parse_conversation call before it changes nothing.
C20_DetectFormat ==
    last.op = "detect_format"
    => /\ ~last.raised
       /\ last.result = (IF ValidJson(raw_content) THEN "json"
                         ELSE IF HasColon(raw_content) THEN "text"
                         ELSE "unknown")
       /\ strip(raw_content) = <<>> => last.result = "unknown"

---------------------------------------------------------------------------
(* The HTTP surface (api/routers/quality_inspector.py): every request gets *)
(* the objects its Depends build, and answers with a status and a body.    *)

\* the characters and the UTF-8 bytes of the pieces of the detailed report
DetailedWidths ==
    ("[kefu duihua zhijian baogao] huihua ID: " :> <<205, 225>>)
    @@ ("\n shengcheng shijian: " :> <<7, 15>>)
    @@ ("[zongti pingfen] zongtipingfen: " :> <<205, 221>>)
    @@ ("fen\n fuwutaidu: " :> <<8, 18>>)
    @@ ("fen\n zhuanyexing: " :> <<7, 15>>)
    @@ ("fen\n heguixing: " :> <<7, 15>>)
    @@ ("fen [faxian wenti]" :> <<200, 210>>)
    @@ ("\n wenti" :> <<3, 7>>) @@ (": [" :> <<3, 3>>) @@ ("] " :> <<2, 2>>)
    @@ ("\n miaoshu: " :> <<5, 9>>) @@ ("\n weizhi: " :> <<5, 9>>)
    @@ ("\n jianyi: " :> <<5, 9>>)
    @@ ("[zongjie]" :> <<198, 202>>)
    @@ ("[baogao jieshu]" :> <<207, 215>>)
\* the characters and the UTF-8 bytes of the other tokens that stand for
\* more than one ASCII character
WordWidths ==
    ("s1" :> <<2, 2>>) @@ ("strftime" :> <<19, 19>>) @@ ("isoformat" :> <<26, 26>>)
    @@ ("kefu biaoxian lianghao" :> <<6, 18>>) @@ ("U+FF1A" :> <<1, 3>>)
    @@ ("weizhiding" :> <<3, 9>>) @@ ("wu" :> <<1, 3>>)
    @@ ("LOW" :> <<1, 3>>) @@ ("MEDIUM" :> <<1, 3>>) @@ ("HIGH" :> <<1, 3>>)
    @@ ("fuwuwenti" :> <<4, 12>>) @@ ("heguiwenti" :> <<4, 12>>)
    @@ ("None" :> <<4, 4>>) @@ ("ud800" :> <<5, 5>>)
    @@ ("session_id" :> <<10, 10>>) @@ ("overall_score" :> <<13, 13>>)
    @@ ("attitude_score" :> <<14, 14>>) @@ ("professionalism_score" :> <<21, 21>>)
    @@ ("compliance_score" :> <<16, 16>>) @@ ("issues" :> <<6, 6>>)
    @@ ("summary" :> <<7, 7>>) @@ ("generated_at" :> <<12, 12>>)
Widths == DetailedWidths @@ WordWidths
\* the other tokens of several characters are Chinese text, three bytes a
\* character; the rest is one ASCII character each
Width(c) ==
    IF c \in DOMAIN Widths THEN Widths[c]
    ELSE IF CharLen(c) > 1 THEN <<CharLen(c), 3 * CharLen(c)>>
    ELSE <<1, 1>>
\* len(text), and len(text.encode())
RECURSIVE len(_)
len(text) == IF text = <<>> THEN 0 ELSE Width(Head(text))[1] + len(Tail(text))
RECURSIVE utf8_len(_)
utf8_len(text) == IF text = <<>> THEN 0 ELSE Width(Head(text))[2] + utf8_len(Tail(text))

\* lines 221-228: the report the endpoint makes up for a report_id
mock_report(report_id) ==
    InspectionReport(Str(report_id), Score(85, <<>>), Score(90, <<>>),
                     Score(85, <<>>), Score(95, <<>>), <<>>,
                     Str(<<"kefu biaoxian lianghao">>))

\* POST /generate-report {report_id, format}
api_generate_report(report_id, format_type) ==
    /\ LET content == generate_detailed_report(mock_report(report_id))
       IN last' = [op |-> "POST /generate-report", status |-> 200,
                   response |-> [report_id |-> report_id, content |-> content,
                                 format |-> format_type, size |-> len(content)]]
    /\ files' = detailed_saved(mock_report(report_id))
    /\ UNCHANGED <<wfVars, thVars, raw_content, conversation, llm, batchVars,
                   results, disk>>

\* get_review_workflow(): the ReviewWorkflow a request of the review surface
\* works on is the one ReviewWorkflow() has just built for it
NewWorkflow == [heap |-> <<>>, pending |-> <<>>, completed |-> <<>>]

\* POST /submit-review {report_id, reviewer}: submit_for_review on the new
\* workflow stores the record under review_{report_id}_{time}; the response
\* is made of the report_id and of constants
api_submit_review(report_id, reviewer) ==
    /\ \E t2 \in now..MaxTime :
         LET report == [session_id |-> report_id, overall_score |-> 85]
             rec == [report |-> report, reviewer |-> reviewer,
                     submitted_at |-> t2, status |-> "pending"]
         IN /\ now' = t2
            /\ heap' = Append(NewWorkflow.heap, rec)
            /\ pending' = StoreItem(NewWorkflow.pending, ReviewId(report_id, now),
                                    Len(NewWorkflow.heap) + 1)
            /\ completed' = NewWorkflow.completed
    /\ last' = [op |-> "POST /submit-review", status |-> 200,
                response |-> [review_id |-> <<"review", report_id>>,
                              status |-> "pending",
                              submitted_at |-> "2024-01-01T00:00:00"]]
    /\ UNCHANGED <<thVars, pipeVars>>

\* POST /approve and POST /reject {review_id, approver, ...}: approve_report
\* and reject_report on the new workflow return False for a review_id that
\* is no key of its pending_reviews, and the endpoint answers 500
api_decide(route, outcome, review_id) ==
    /\ last' = IF review_id \in Keys(NewWorkflow.pending)
               THEN [op |-> route, status |-> 200,
                     response |-> [review_id |-> review_id, status |-> outcome,
                                   updated_at |-> "2024-01-01T00:00:00"]]
               ELSE [op |-> route, status |-> 500, review_id |-> review_id]
    /\ heap' = NewWorkflow.heap
    /\ pending' = NewWorkflow.pending
    /\ completed' = NewWorkflow.completed
    /\ UNCHANGED <<now, thVars, pipeVars>>
api_approve(review_id) == api_decide("POST /approve", "approved", review_id)
api_reject(review_id) == api_decide("POST /reject", "rejected", review_id)

\* GET /pending-reviews: the listing of the new workflow
api_pending_reviews ==
    /\ LET reviews == Listing(NewWorkflow.pending, NewWorkflow.heap, 1)
       IN last' = [op |-> "GET /pending-reviews", status |-> 200,
                   response |-> [count |-> Len(reviews), reviews |-> reviews]]
    /\ heap' = NewWorkflow.heap
    /\ pending' = NewWorkflow.pending
    /\ completed' = NewWorkflow.completed
    /\ UNCHANGED <<now, thVars, pipeVars>>

ReportIds == {<<>>, <<"s1">>, <<"U+FF1A">>, <<"s1", "U+FF1A">>}
\* the review_ids a client can send: those the responses hand out and those
\* the workflow uses as keys
ClientReviewIds == {<<"review", s>> : s \in Sessions} \cup ReviewIds

InitApi ==
    /\ Init!1 /\ Init!2 /\ Init!3 /\ Init!4 /\ Init!5 /\ Init!6 /\ Init!7 /\ Init!8
    /\ raw_content = <<>>
    /\ conversation = NoConversation
    /\ llm = Returns(PyNone)
    /\ NoBatch
    /\ results = <<>>
    /\ disk \in DiskStates
    /\ files = <<>>

NextApi ==
    \/ \E report_id \in ReportIds, format_type \in FormatsKnown :
         api_generate_report(report_id, format_type)
    \/ disk_changes
    \/ Tick
    \/ \E report_id \in Sessions, reviewer \in Reviewers :
         api_submit_review(report_id, reviewer)
    \/ \E review_id \in ClientReviewIds : api_approve(review_id)
    \/ \E review_id \in ClientReviewIds : api_reject(review_id)
    \/ api_pending_reviews

SpecApi == InitApi /\ [][NextApi]_vars

\* C21: the size in the response of POST /generate-report is the length in
\* bytes of the content of that response, encoded, whatever the characters
\* of the content.
C21_SizeIsByteLength ==
    last.op = "POST /generate-report"
    => last.response.size = utf8_len(last.response.content)

Submitted == last.op = "POST /submit-review" /\ last.status = 200

\* C23: the review surface works on one store shared by all requests: the
\* review_id in the response of a successful submit request is the key of the
\* pending record the request created; a list-pending request that follows
\* counts and lists that record; an approve or reject request that follows
\* with that review_id succeeds.
C23_OneSharedReviewStore ==
    [][/\ Submitted' => last'.response.review_id \in Keys(pending')
       /\ (Submitted /\ api_pending_reviews)
          => /\ last'.response.count >= 1
             /\ \E k \in 1..Len(last'.response.reviews) :
                  last'.response.reviews[k].review_id = last.response.review_id
       /\ (Submitted /\ (api_approve(last.response.review_id)
                         \/ api_reject(last.response.review_id)))
          => last'.status = 200]_vars

---------------------------------------------------------------------------
(* Claims about the strategies of extract_dialogue_turns (SpecParse)       *)

\* the first of the three patterns that matches the text somewhere, 4 (the
\* line scanner) when none does
FirstMatching(text) ==
    IF \E k \in 1..3 : findall(k, text, 1) # <<>>
    THEN Min({k \in 1..3 : findall(k, text, 1) # <<>>})
    ELSE 4
\* the turns of one strategy alone
TurnsOf(k, text) ==
    IF k = 4 THEN ScanLines(split(text, "\n"), 1, <<"weizhi">>, <<>>)
    ELSE MatchTurns(findall(k, text, 1))

\* C24: the turns of a text are those of exactly one strategy, the first of
\* speaker marker, bracketed speaker, parenthetical speaker and line scanner
\* whose pattern matches the text at least once: after a strategy that
\* matched no later one runs, the line scanner included, and the turns of two
\* strategies are never put together.
C24_FirstMatchingStrategyOnly ==
    (/\ last.op = "parse_conversation"
     /\ last.format_type # "json"
     /\ last.result.session_id # ParseError)
    => last.result.turns = TurnsOf(FirstMatching(raw_content), raw_content)

---------------------------------------------------------------------------
(* Claims about the JSON branch of parse_conversation (SpecParse)          *)

\* a turn object: a JSON object whose speaker and content, where it has
\* them, are strings
TurnObject(v) ==
    /\ type(v) = "dict"
    /\ \A i \in 1..Len(v.dict) :
         v.dict[i].k \in {<<"speaker">>, <<"content">>} => type(v.dict[i].v) = "str"
TurnArray(v) == type(v) = "list" /\ \A i \in 1..Len(v.list) : TurnObject(v.list[i])
HasKey(d, key) == \E i \in 1..Len(d.dict) : d.dict[i].k = <<key>>
\* the array of turns of a document of one of the two shapes
TurnsIn(doc) ==
    IF type(doc) = "list" THEN doc
    ELSE IF HasKey(doc, "turns") THEN get(doc.dict, <<"turns">>, PyNone)
    ELSE get(doc.dict, <<"conversation">>, PyNone)
Supported(doc) ==
    \/ TurnArray(doc)
    \/ /\ type(doc) = "dict"
       /\ HasKey(doc, "turns") \/ HasKey(doc, "conversation")
       /\ TurnArray(TurnsIn(doc))
ParsedAsJson == last.op = "parse_conversation" /\ last.format_type = "json"

\* C25: with the hint "json", a top-level array of turn objects and an
\* object whose turns or conversation key holds such an array both give a
\* conversation with one turn per element of the array, in its order, the
\* metadata format "json" and a session_id that is not "parse_error".
C25_BothJsonShapesAccepted ==
    (ParsedAsJson /\ json_loads(raw_content).ok /\ Supported(json_loads(raw_content).v))
    => LET array == TurnsIn(json_loads(raw_content).v).list
       IN /\ last.result.session_id # ParseError
          /\ last.result.metadata = [format |-> "json"]
          /\ last.result.turns = [k \in 1..Len(array) |-> json_turn(array[k])]

ObjectArray(v) == type(v) = "list" /\ \A i \in 1..Len(v.list) : type(v.list[i]) = "dict"
\* valid JSON of another shape: a scalar, an array that holds something else
\* than objects, an object with neither key, an object whose key holds
\* something else than an array of objects
OtherShape(doc) ==
    CASE type(doc) = "list" -> ~ObjectArray(doc)
      [] type(doc) = "dict" ->
           \/ ~HasKey(doc, "turns") /\ ~HasKey(doc, "conversation")
           \/ ~ObjectArray(TurnsIn(doc))
      [] OTHER -> TRUE

\* C26: with the hint "json", valid JSON of any other shape gives the
\* parse_error conversation with an error in its metadata, never a
\* conversation that passes for parsed, empty or partly filled.
C26_OtherJsonShapesRejected ==
    (ParsedAsJson /\ json_loads(raw_content).ok /\ OtherShape(json_loads(raw_content).v))
    => /\ last.result.session_id = ParseError
       /\ "error" \in DOMAIN last.result.metadata

\* C27: no turn of a conversation parse_conversation returns has an empty
\* content, whichever text strategy or the JSON branch made it.
C27_NoEmptyContent ==
    last.op = "parse_conversation"
    => \A k \in 1..Len(last.result.turns) :
         last.result.turns[k].content # Str(<<>>)

---------------------------------------------------------------------------
(* Scores and summary of a response, as the labelled lines give them.     *)

\* a label, one colon, whitespace and a number at i: where the number starts,
\* 0 when the text at i is not of this form
LabelledNumber(s, label, i) ==
    LET k == Min({q \in i + 2..Len(s) + 1 : Tok(s, q) \notin Whitespace})
    IN IF s[i] = label /\ Tok(s, i + 1) \in Colons /\ Tok(s, k) \in DecimalDigits
       THEN k ELSE 0
\* the number of the first such occurrence of the label, 0.0 without one
FirstLabelled(response, label) ==
    LET hits == {i \in 1..Len(response) : LabelledNumber(response, label, i) > 0}
        k == LabelledNumber(response, label, Min(hits))
        e == DigitsEnd(response, k)
        f == IF Tok(response, e + 1) = "." THEN DigitsEnd(response, e + 2) ELSE e
    IN IF hits = {} THEN ZeroScore ELSE float(SubSeq(response, k, f))
\* the text after the first "zongjie" and colon, up to the end of its line
RestOfSummaryLine(response) ==
    LET hits == {i \in 1..Len(response) :
                   response[i] = "zongjie" /\ Tok(response, i + 1) \in Colons}
        i == Min(hits)
        j == Min({q \in i + 2..Len(response) + 1 : Tok(response, q) \in {"\n", "EOF"}})
    IN IF hits = {} THEN <<>> ELSE strip(SubSeq(response, i + 2, j - 1))

\* C28: each of the four scores of a parsed response is the number of the
\* first occurrence of its label followed by a colon, whitespace and a
\* number, and 0 without such an occurrence, independently of the other
\* labels; the summary is the text after the first "zongjie" and colon on
\* its line, else empty. The response of scenario 2 gives 85, 90, 0, 0 and
\* "biaoxian lianghao".
C28_ScoresAndSummaryByLabel ==
    (last.op = "inspect_conversation" /\ ~inspect_try(conversation, llm).raised)
    => LET response == llm.value.str
       IN /\ last.result.overall_score = FirstLabelled(response, "zongtipingfen")
          /\ last.result.attitude_score = FirstLabelled(response, "fuwutaidu")
          /\ last.result.professionalism_score = FirstLabelled(response, "zhuanyexing")
          /\ last.result.compliance_score = FirstLabelled(response, "heguixing")
          /\ last.result.summary = Str(RestOfSummaryLine(response))
          /\ response = Scenario2
             => /\ last.result.overall_score = float(<<"8", "5">>)
                /\ last.result.attitude_score = float(<<"9", "0">>)
                /\ last.result.professionalism_score = ZeroScore
                /\ last.result.compliance_score = ZeroScore
                /\ last.result.summary = Str(<<"biaoxian lianghao">>)

---------------------------------------------------------------------------
(* Issues of a response, block by block.                                   *)

\* a block that names a problem
NamesProblem(block) == Contains(block, "wenti") \/ Contains(block, "buzu")
\* the blocks the numbered-list markers split the response into, the one
\* before the first marker included, that name a problem
ProblemBlocks(response) == SelectSeq(resplit(response, 1, 1), NamesProblem)

\* C29: the issues of a parsed response are one for every block, among
\* those the numbered-list markers split the response into, that contains
\* "wenti" or "buzu", the block before the first marker and a response
\* without a marker included, in the order of the blocks; the description
\* of each is the block stripped, at most 200 characters of it, and its
\* severity is high with "yanzhong" in the block, else low with "qingwei",
\* else medium.
C29_OneIssuePerProblemBlock ==
    (last.op = "inspect_conversation" /\ ~inspect_try(conversation, llm).raised)
    => LET blocks == ProblemBlocks(llm.value.str)
           issues == last.result.issues
       IN /\ Len(issues) = Len(blocks)
          /\ \A k \in 1..Len(issues) :
                /\ k <= Len(blocks)
                   => /\ issues[k].description = truncate(strip(blocks[k]), MaxDescription)
                      /\ issues[k].severity =
                           IF Contains(blocks[k], "yanzhong") THEN "HIGH"
                           ELSE IF Contains(blocks[k], "qingwei") THEN "LOW"
                           ELSE "MEDIUM"
                /\ CharCount(issues[k].description) <= MaxDescription

---------------------------------------------------------------------------
(* The issue types a summary lists.                                        *)

\* the issue types of all issues of all reports, in the order of iteration
IssueTypes(rs) == {all_issue_types(rs)[j] : j \in 1..Len(all_issue_types(rs))}
\* the issues of one type among all issues of all reports
IssuesOfType(rs, t) ==
    Cardinality({j \in 1..Len(all_issue_types(rs)) : all_issue_types(rs)[j] = t})
\* where a type is first met
FirstMet(rs, t) ==
    Min({j \in 1..Len(all_issue_types(rs)) : all_issue_types(rs)[j] = t})

\* C30: top_issues of the summary generate_summary_report returns lists at
\* most 5 issue types, each once and with the number of the issues of its
\* type over all reports, the larger count first and equal counts in the
\* order their types were first met; no type left out has a larger count
\* than a listed one. A summary that was made (total_sessions is the number
\* of reports) lists 5 types, or every type when there are fewer.
C30_TopIssues ==
    last.op = "generate_summary_report"
    => LET top == last.result.top_issues
           listed == {top[k].type : k \in 1..Len(top)}
       IN /\ Len(top) <= TopIssues
          /\ \A k \in 1..Len(top) :
                /\ top[k].type \in IssueTypes(results)
                /\ top[k].count = IssuesOfType(results, top[k].type)
                /\ \A t \in IssueTypes(results) \ listed :
                      top[k].count >= IssuesOfType(results, t)
          /\ \A j, k \in 1..Len(top) :
                j < k => /\ top[j].type # top[k].type
                         /\ top[j].count >= top[k].count
                         /\ top[j].count = top[k].count
                            => FirstMet(results, top[j].type)
                               < FirstMet(results, top[k].type)
          /\ (results # <<>> /\ last.result.total_sessions = Len(results))
             => \/ Len(top) = TopIssues
                \/ listed = IssueTypes(results)

\* a summary of reports with more than 5 issue types: 5 are listed, two of
\* them with equal counts, and a type is left out
C30_Witness ==
    /\ last.op = "generate_summary_report"
    /\ Len(last.result.top_issues) = TopIssues
    /\ Cardinality(IssueTypes(results)) > TopIssues
    /\ \E j, k \in 1..TopIssues :
          /\ j < k
          /\ last.result.top_issues[j].count = last.result.top_issues[k].count
    /\ \E j, k \in 1..TopIssues :
          last.result.top_issues[j].count > last.result.top_issues[k].count

=============================================================================
